---- MODULE Spec2Model ----
(***************************************************************************)
(* Pipeline-binary loader and command-packet compiler of PAL (gfx9):       *)
(* section layout planner, PipelineUploader, Pipeline record and the       *)
(* compute pipeline's HwlInit / WriteCommands.                             *)
(***************************************************************************)
EXTENDS Integers, Sequences, FiniteSets, TLC

VARIABLES
    elf,          \* the ELF section table handed to the planner / uploader
    m_map,        \* Util::SectionMemoryMap {m_alignment, m_size, m_sections}
    m_segments,   \* PipelineGpuMapping::m_segments
    meta,         \* CodeObjectMetadata / register list of the binary (input)
    dev,          \* device: chip properties and settings (input)
    uploader,     \* the PipelineUploader's members
    mapping,      \* the section mapping Begin fills for its caller
    memMgr,       \* the device memory manager and the allocation's map state
    m_perfDataInfo, \* Pipeline::m_perfDataInfo[HardwareStage]
    alerts,       \* the PAL_ASSERT / PAL_ALERT sites that have fired
    result,       \* the Result the caller holds
    endCalls,     \* End() calls on the uploader since it was constructed / begun
    pc,           \* position of the caller
    pipeline,     \* Pipeline::m_gpuMem, m_gpuMemSize, m_dataOffset, m_dataLength
    m_commands,   \* ComputePipeline::m_commands (the pre-built PM4 images)
    m_signature,  \* ComputePipeline::m_signature
    cmdBuf,       \* the callers' command buffers WriteCommands wrote into
    query         \* the last introspection call: its arguments and outputs

plannerVars == <<elf, m_map, m_segments>>
uploadVars  == <<meta, dev, uploader, mapping, memMgr, m_perfDataInfo, alerts,
                 result, endCalls, pc>>
hwlVars == <<pipeline, m_commands, m_signature, cmdBuf, query>>
vars == <<elf, m_map, m_segments, meta, dev, uploader, mapping, memMgr,
          m_perfDataInfo, alerts, result, endCalls, pc,
          pipeline, m_commands, m_signature, cmdBuf, query>>

\* ------------------------------------------------------------------ bounds
MaxSections == 3
MaxEndCalls == 2
MaxSigEntries == 3     \* user-data register entries of one register list

\* ------------------------------------------------------- ELF section flags
ShfWrite     == 1
ShfAlloc     == 2
ShfExecInstr == 4

\* (flags & bit) != 0 for a single-bit mask
HasFlag(flags, bit) == (flags \div bit) % 2 = 1

\* ------------------------------------------------------------ inline funcs
\* (value + alignment - 1) & ~(alignment - 1) in unsigned 64-bit arithmetic.
\* For a power-of-two alignment this is the next multiple of the alignment;
\* for alignment 0 the mask ~(0 - 1) is 0, so the result is 0.
Pow2Align(value, alignment) ==
    IF alignment = 0 THEN 0
    ELSE ((value + alignment - 1) \div alignment) * alignment

\* LowPart: the low 32 bits.  Every address of the model is below 2^31 (the
\* checker's integers are 32-bit), where the low 32 bits are the value itself.
LowPart(x) == x

Max(a, b) == IF a > b THEN a ELSE b
Min(a, b) == IF a < b THEN a ELSE b

\* ------------------------------------------------------- SectionMemoryMap
NewSectionMemoryMap == [m_alignment |-> 0, m_size |-> 0, m_sections |-> <<>>]

\* SectionMemoryMap::AddSection; id = section->GetIndex()
SectionMemoryMap_AddSection(map, id, section) ==
    LET alignment == section.align
        offset    == Pow2Align(map.m_size, alignment)
    IN  [m_alignment |-> IF alignment > map.m_alignment THEN alignment
                         ELSE map.m_alignment,
         m_size      |-> offset + section.size,
         m_sections  |-> Append(map.m_sections, [id |-> id, offset |-> offset])]

\* SectionMemoryMap::GetSectionOffset: index of the first entry with the id,
\* 0 when there is none (Result::ErrorUnavailable)
FirstWithId(sections, sectionIndex) ==
    LET hits == {i \in 1..Len(sections) : sections[i].id = sectionIndex}
    IN  IF hits = {} THEN 0 ELSE CHOOSE i \in hits : \A j \in hits : i <= j

GetSectionOffset(map, sectionIndex) ==
    LET i == FirstWithId(map.m_sections, sectionIndex)
    IN  IF i = 0 THEN [result |-> "ErrorUnavailable", offset |-> 0]
        ELSE [result |-> "Success", offset |-> map.m_sections[i].offset]

\* ------------------------------------------ PipelineSectionSegmentMapping
NewSegment(flags) ==
    [m_flags |-> flags, m_alignment |-> 0, m_size |-> 0, m_sections |-> <<>>]

\* PipelineSectionSegmentMapping::AddSection
Segment_AddSection(seg, id, section) ==
    LET alignment == section.align
        offset    == Pow2Align(seg.m_size, alignment)
    IN  [seg EXCEPT !.m_alignment = IF alignment > @ THEN alignment ELSE @,
                    !.m_size      = offset + section.size,
                    !.m_sections  = Append(@, [id |-> id, offset |-> offset])]

\* --------------------------------------------------- PipelineGpuMapping
\* index of the first segment whose flags equal `flags`, 0 when none
FindSegment(segments, flags) ==
    LET hits == {i \in 1..Len(segments) : segments[i].m_flags = flags}
    IN  IF hits = {} THEN 0 ELSE CHOOSE i \in hits : \A j \in hits : i <= j

\* mutant: the search for an existing segment with these flags is skipped
GpuMapping_AddSection_NoSearch(segments, id, section) ==
    Append(segments, Segment_AddSection(NewSegment(section.flags), id, section))

\* PipelineGpuMapping::AddSection
GpuMapping_AddSection(segments, id, section) ==
    LET i == FindSegment(segments, section.flags)
    IN  IF i # 0
        THEN [segments EXCEPT ![i] = Segment_AddSection(@, id, section)]
        ELSE Append(segments,
                    Segment_AddSection(NewSegment(section.flags), id, section))

GetSegmentCount(segments) == Len(segments)

\* PipelineGpuMapping::GetSectionPosition
GetSectionPosition(segments, sectionIndex, sectionFlags) ==
    LET i == FindSegment(segments, sectionFlags)
    IN  IF i = 0
        THEN [result |-> "ErrorUnavailable", segmentIndex |-> 0, offset |-> 0]
        ELSE LET r == GetSectionOffset(segments[i], sectionIndex)
             IN  [result |-> r.result, segmentIndex |-> i, offset |-> r.offset]

\* ======================================================= PipelineUploader
HwStageCount         == 7      \* Abi::HardwareStage::Count (Ls Hs Es Gs Vs Ps Cs)
HwStageCs            == 6      \* Abi::HardwareStage::Cs
ShaderICacheLineSize == 64
GpuMemByteAlign      == 256
RegisterEntryBytes   == 8      \* sizeof(uint32) << 1

HwStages == 0..(HwStageCount - 1)

\* PipelineUploader::PipelineUploader. Pointers are byte addresses, 0 = nullptr;
\* m_pGpuMemory is the id of the allocation, 0 = nullptr.  ctxRegs / shRegs
\* are the (address, value) pairs written through the two write pointers.
NewUploader(ctxRegisterCount, shRegisterCount) ==
    [m_pGpuMemory |-> 0, m_baseOffset |-> 0, m_gpuMemSize |-> 0,
     m_codeGpuVirtAddr |-> 0, m_dataGpuVirtAddr |-> 0,
     m_ctxRegGpuVirtAddr |-> 0, m_shRegGpuVirtAddr |-> 0,
     m_shRegisterCount |-> shRegisterCount,
     m_ctxRegisterCount |-> ctxRegisterCount,
     m_dataOffset |-> 0, m_dataLength |-> 0,
     m_textOffset |-> 0, m_textLength |-> 0,
     m_prefetchGpuVirtAddr |-> 0, m_prefetchSize |-> 0,
     m_pMappedPtr |-> 0, m_pCtxRegWritePtr |-> 0, m_pShRegWritePtr |-> 0,
     m_pCtxRegWritePtrStart |-> 0, m_pShRegWritePtrStart |-> 0,
     ctxRegs |-> <<>>, shRegs |-> <<>>]

NullPerfDataInfo ==
    [s \in HwStages |->
        [sizeInBytes |-> 0, cpuOffset |-> 0, gpuVirtAddr |-> 0, regOffset |-> 0]]

\* sections->GetSectionIndex(name): 0 (the null section) when there is none
SectionIndexByName(sections, name) ==
    LET hits == {i \in 1..Len(sections) : sections[i].name = name}
    IN  IF hits = {} THEN 0 ELSE CHOOSE i \in hits : \A j \in hits : i <= j

\* Begin, lines 625-631: the writable / executable sections, in table order
RECURSIVE AddLoadedSections(_, _, _)
AddLoadedSections(map, sections, i) ==
    IF i > Len(sections) THEN map
    ELSE AddLoadedSections(
             IF HasFlag(sections[i].flags, ShfWrite)
                \/ HasFlag(sections[i].flags, ShfExecInstr)
             THEN Segment_AddSection(map, i, sections[i]) ELSE map,
             sections, i + 1)

\* mutant: the payload is rounded to 4 bytes whether or not registers follow
SizeWithRegisters_AlwaysRounded(layoutSize, ctxRegisterCount, shRegisterCount) ==
    Pow2Align(layoutSize, 4)
        + RegisterEntryBytes * (ctxRegisterCount + shRegisterCount)

\* Begin, lines 632-639: the section payload plus the register table
SizeWithRegisters(layoutSize, ctxRegisterCount, shRegisterCount) ==
    LET totalRegisters == ctxRegisterCount + shRegisterCount
    IN  IF totalRegisters > 0
        THEN Pow2Align(layoutSize, 4) + RegisterEntryBytes * totalRegisters
        ELSE layoutSize

\* Begin, lines 641-654: reserve each stage's performance data buffer
RECURSIVE ReservePerfData(_, _, _, _)
ReservePerfData(list, perfSizes, s, offset) ==
    IF s >= HwStageCount THEN [list |-> list, size |-> offset]
    ELSE IF perfSizes[s] # 0
         THEN ReservePerfData(
                  [list EXCEPT ![s].sizeInBytes = perfSizes[s],
                               ![s].cpuOffset   = offset],
                  perfSizes, s + 1, offset + perfSizes[s])
         ELSE ReservePerfData(list, perfSizes, s + 1, offset)

\* Begin, lines 663-665
MinSafeSize(codeLength, shaderPrefetchBytes) ==
    Pow2Align(codeLength, ShaderICacheLineSize) + shaderPrefetchBytes

\* mutant: the computed size is used as it is
ClampToMinSafeSize_Dropped(size, minSafeSize) == size

\* Begin, line 667
ClampToMinSafeSize(size, minSafeSize) == Max(size, minSafeSize)

\* Begin, lines 787-795: finalize each stage's performance data address
FinalizePerfData(list, gpuVirtAddr) ==
    [s \in HwStages |->
        IF list[s].sizeInBytes # 0
        THEN [list[s] EXCEPT !.gpuVirtAddr = LowPart(gpuVirtAddr + list[s].cpuOffset)]
        ELSE list[s]]

\* PipelineUploader::Begin.  mm = what the memory manager answers: allocOk,
\* mapOk, the allocation's gpuVirtAddr and baseOffset, the CPU address of
\* the mapping.
Begin(up, sections, perfSizes, perfList, prefetchBytes, mapping0, mm) ==
    LET textIdx     == SectionIndexByName(sections, ".text")
        dataIdx     == SectionIndexByName(sections, ".data")
        dataLength  == IF dataIdx = 0 THEN 0 ELSE sections[dataIdx].size
        map         == AddLoadedSections(mapping0, sections, 1)
        withRegs    == SizeWithRegisters(map.m_size, up.m_ctxRegisterCount,
                                         up.m_shRegisterCount)
        perf        == ReservePerfData(perfList, perfSizes, 0, withRegs)
        codeLength  == sections[textIdx].size
        size        == ClampToMinSafeSize(perf.size,
                                          MinSafeSize(codeLength, prefetchBytes))
        base        == [result |-> "Success", uploader |-> up, mapping |-> map,
                        perf |-> perf.list, requested |-> size,
                        allocated |-> FALSE, mapped |-> FALSE]
        u1          == [up EXCEPT !.m_pGpuMemory = 1,
                                  !.m_baseOffset = mm.baseOffset]
        u2          == [u1 EXCEPT !.m_gpuMemSize = size,
                                  !.m_pMappedPtr = mm.cpuAddr + mm.baseOffset]
        gpuVirtAddr == mm.gpuVirtAddr + mm.baseOffset
        copyMiss    == \E i \in 1..Len(map.m_sections) :
                          GetSectionOffset(map, map.m_sections[i].id).result # "Success"
        perfIdx     == SectionIndexByName(sections, "__llvm_prf_cnts")
        perfLook    == GetSectionOffset(map, perfIdx)
        u3          == IF perfIdx # 0
                       THEN [u2 EXCEPT !.m_dataLength = sections[perfIdx].size,
                                       !.m_dataOffset = perfLook.offset]
                       ELSE u2
        textLook    == GetSectionOffset(map, textIdx)
        u4          == [u3 EXCEPT
                          !.m_codeGpuVirtAddr     = gpuVirtAddr + textLook.offset,
                          !.m_prefetchGpuVirtAddr = gpuVirtAddr + textLook.offset,
                          !.m_prefetchSize        = sections[textIdx].size,
                          !.m_textOffset          = textLook.offset,
                          !.m_textLength          = sections[textIdx].size]
        dataLook    == GetSectionOffset(map, dataIdx)
        u5          == IF dataLength > 0
                       THEN [u4 EXCEPT !.m_dataGpuVirtAddr = gpuVirtAddr + dataLook.offset]
                       ELSE u4
        pMappedPtr  == u2.m_pMappedPtr + map.m_size
        gpuVirtEnd  == gpuVirtAddr + map.m_size
        regGpuVirtAddr == Pow2Align(gpuVirtEnd, 4)
        pRegWritePtr   == Pow2Align(pMappedPtr, 4)
        u6          == IF up.m_ctxRegisterCount > 0
                       THEN [u5 EXCEPT !.m_ctxRegGpuVirtAddr = regGpuVirtAddr,
                                       !.m_pCtxRegWritePtr   = pRegWritePtr]
                       ELSE u5
        shGpuVirtAddr == IF up.m_ctxRegisterCount > 0
                         THEN regGpuVirtAddr + up.m_ctxRegisterCount * 8
                         ELSE regGpuVirtAddr
        shWritePtr    == IF up.m_ctxRegisterCount > 0
                         THEN pRegWritePtr + up.m_ctxRegisterCount * 2 * 4
                         ELSE pRegWritePtr
        u7          == IF up.m_shRegisterCount > 0
                       THEN [u6 EXCEPT !.m_shRegGpuVirtAddr = shGpuVirtAddr,
                                       !.m_pShRegWritePtr   = shWritePtr]
                       ELSE u6
        u8          == IF up.m_ctxRegisterCount + up.m_shRegisterCount > 0
                       THEN [u7 EXCEPT !.m_pCtxRegWritePtrStart = u7.m_pCtxRegWritePtr,
                                       !.m_pShRegWritePtrStart  = u7.m_pShRegWritePtr]
                       ELSE u7
        mappedOut(res, u) == [base EXCEPT !.result = res, !.uploader = u,
                                          !.allocated = TRUE, !.mapped = TRUE]
    IN  IF ~mm.allocOk
        THEN [base EXCEPT !.result = "ErrorOutOfGpuMemory"]
        ELSE IF ~mm.mapOk
        THEN [base EXCEPT !.result = "ErrorGpuMemoryMapFailed", !.uploader = u1,
                          !.allocated = TRUE]
        ELSE IF copyMiss
        THEN mappedOut("ErrorUnavailable", u2)
        ELSE IF perfIdx # 0 /\ perfLook.result # "Success"
        THEN mappedOut(perfLook.result, u2)
        ELSE IF textLook.result # "Success"
        THEN mappedOut(textLook.result, u3)
        ELSE IF dataLength > 0 /\ dataLook.result # "Success"
        THEN mappedOut(dataLook.result, u4)
        ELSE [mappedOut("Success", u8) EXCEPT
                 !.perf = FinalizePerfData(perf.list, gpuVirtEnd)]

\* PipelineUploader::AddCtxReg / AddShReg: one (address, value) pair through
\* the write pointer, which advances by two DWORDs
AddCtxReg(up, address, value) ==
    [up EXCEPT !.ctxRegs = Append(@, <<address, value>>),
               !.m_pCtxRegWritePtr = @ + 8]

AddShReg(up, address, value) ==
    [up EXCEPT !.shRegs = Append(@, <<address, value>>),
               !.m_pShRegWritePtr = @ + 8]

\* the two PAL_ASSERTs of End(), lines 811-812
EndAsserts(up) ==
    (IF up.m_pCtxRegWritePtr # up.m_pCtxRegWritePtrStart + up.m_ctxRegisterCount * 8
     THEN {"End:ctxRegCount"} ELSE {})
    \cup
    (IF up.m_pShRegWritePtr # up.m_pShRegWritePtrStart + up.m_shRegisterCount * 8
     THEN {"End:shRegCount"} ELSE {})

\* PipelineUploader::End, line 807: is there a mapping to release
EndUnmaps(up) == up.m_pGpuMemory # 0 /\ up.m_pMappedPtr # 0

\* mutant: End forgets to clear m_pMappedPtr
End_LeavesMappedPtr(up) ==
    IF EndUnmaps(up)
    THEN [up EXCEPT !.m_pCtxRegWritePtrStart = 0, !.m_pShRegWritePtrStart = 0,
                    !.m_pCtxRegWritePtr = 0, !.m_pShRegWritePtr = 0]
    ELSE up

\* PipelineUploader::End: the members after the call
End(up) ==
    IF EndUnmaps(up)
    THEN [up EXCEPT !.m_pCtxRegWritePtrStart = 0, !.m_pShRegWritePtrStart = 0,
                    !.m_pCtxRegWritePtr = 0, !.m_pShRegWritePtr = 0,
                    !.m_pMappedPtr = 0]
    ELSE up

\* PipelineUploader::~PipelineUploader: PAL_ASSERT(m_pMappedPtr == nullptr)
DtorAsserts(up) == IF up.m_pMappedPtr # 0 THEN {"~PipelineUploader:mapped"} ELSE {}

\* the memory manager after AllocateGpuMem / Map as Begin called them
MemAfterBegin(mm, begin) ==
    [mm EXCEPT !.requested = begin.requested,
               !.live      = IF begin.allocated THEN @ \cup {1} ELSE @,
               !.mapped    = IF begin.mapped THEN @ \cup {1} ELSE @]

\* GpuMemory::Unmap as End calls it
MemAfterEnd(mm, up) ==
    IF EndUnmaps(up)
    THEN [mm EXCEPT !.mapped = @ \ {up.m_pGpuMemory}, !.unmapCalls = @ + 1]
    ELSE mm

\* ================================================== Gfx9::ComputePipeline
\* register addresses (gfx9 SH register space)
mmCOMPUTE_NUM_THREAD_X    == 11783
mmCOMPUTE_NUM_THREAD_Y    == 11784
mmCOMPUTE_NUM_THREAD_Z    == 11785
mmCOMPUTE_PGM_LO          == 11788
mmCOMPUTE_PGM_HI          == 11789
mmCOMPUTE_PGM_RSRC1       == 11794
mmCOMPUTE_PGM_RSRC2       == 11795
mmCOMPUTE_RESOURCE_LIMITS == 11797
mmCOMPUTE_SHADER_CHKSUM   == 11814
mmCOMPUTE_USER_DATA_0     == 11840
mmCOMPUTE_USER_DATA_15    == 11855

InternalTblStartReg  == 0
ConstBufTblStartReg  == 1
FastUserDataStartReg == 2
GdsRangeRegCompute   == 15
MaxUserDataEntries   == 16
UserDataNotMapped    == 0
NoUserDataSpilling   == 65535
ShRegSizeDwords      == 2

\* Abi::UserDataMapping
UserDataMapping ==
    [GlobalTable |-> 268435456, PerShaderTable |-> 268435457,
     SpillTable |-> 268435458, BaseVertex |-> 268435459,
     BaseInstance |-> 268435460, DrawIndex |-> 268435461,
     Workgroup |-> 268435462, GdsRange |-> 268435463,
     BaseIndex |-> 268435464, Log2IndexSize |-> 268435465,
     EsGsLdsSize |-> 268435466, StreamOutTable |-> 268435468,
     PerShaderPerfData |-> 268435469, VertexBufferTable |-> 268435471]

GraphicsOnlyMappings ==
    {UserDataMapping.VertexBufferTable, UserDataMapping.StreamOutTable,
     UserDataMapping.BaseVertex, UserDataMapping.BaseInstance,
     UserDataMapping.DrawIndex, UserDataMapping.BaseIndex,
     UserDataMapping.Log2IndexSize, UserDataMapping.EsGsLdsSize}

\* registers.HasEntry(offset) / registers.At(offset): `registers` is a
\* function whose domain is the set of register addresses with an entry
HasEntry(registers, offset) == offset \in DOMAIN registers

\* SetupSignatureFromElf, line 98: Max<uint8>(userSgprId + 1, userSgprCount)
UserSgprCountAfter(userSgprCount, userSgprId) ==
    Max((userSgprId + 1) % 256, userSgprCount)

\* mutant: the unbound signature already counts one user SGPR
NullCsSignature_OneUserSgpr ==
    [stage |-> [firstUserSgprRegAddr |-> 0,
                mappedEntry |-> [i \in 0..15 |-> 0],
                userSgprCount |-> 1,
                spillTableRegAddr |-> 0],
     numWorkGroupsRegAddr |-> 0,
     spillThreshold |-> 65535,
     userDataLimit |-> 0,
     perfDataAddr |-> 0]

\* NullCsSignature; mappedEntry is indexed by user-SGPR id
NullCsSignature ==
    [stage |-> [firstUserSgprRegAddr |-> 0,
                mappedEntry |-> [i \in 0..15 |-> 0],
                userSgprCount |-> 0,
                spillTableRegAddr |-> UserDataNotMapped],
     numWorkGroupsRegAddr |-> UserDataNotMapped,
     spillThreshold |-> NoUserDataSpilling,
     userDataLimit |-> 0,
     perfDataAddr |-> UserDataNotMapped]

\* mutant: the bound of the user-data entries is inclusive
IsUserDataEntry_Inclusive(value) == value <= MaxUserDataEntries

\* SetupSignatureFromElf, line 91: the value is a user-data entry ordinal
IsUserDataEntry(value) == value < MaxUserDataEntries

\* one iteration of the loop of SetupSignatureFromElf, lines 86-142.
\* st = [sig, regOffset, alerts]; regOffset is m_perfDataInfo[Cs].regOffset
SignatureStep(st, registers, offset) ==
    IF ~HasEntry(registers, offset) THEN st
    ELSE
    LET value == registers[offset]
        first == st.sig.stage.firstUserSgprRegAddr
        \* static_cast<uint8>(offset - firstUserSgprRegAddr)
        userSgprId == (offset - first) % 256
    IN  IF IsUserDataEntry(value)
        THEN [st EXCEPT
                 !.alerts = IF offset >= first THEN @
                            ELSE @ \cup {"Signature:belowFirstUserSgpr"},
                 !.sig.stage.mappedEntry =
                     IF userSgprId \in DOMAIN @
                     THEN [@ EXCEPT ![userSgprId] = value] ELSE @,
                 !.outOfRangeWrite = @ \/ userSgprId \notin 0..15,
                 !.sig.stage.userSgprCount = UserSgprCountAfter(@, userSgprId)]
        ELSE IF value = UserDataMapping.GlobalTable
        THEN [st EXCEPT !.alerts =
                 IF offset = mmCOMPUTE_USER_DATA_0 + InternalTblStartReg THEN @
                 ELSE @ \cup {"Signature:GlobalTable"}]
        ELSE IF value = UserDataMapping.PerShaderTable
        THEN [st EXCEPT !.alerts =
                 IF offset = mmCOMPUTE_USER_DATA_0 + ConstBufTblStartReg THEN @
                 ELSE @ \cup {"Signature:PerShaderTable"}]
        ELSE IF value = UserDataMapping.SpillTable
        THEN [st EXCEPT !.sig.stage.spillTableRegAddr = offset]
        ELSE IF value = UserDataMapping.Workgroup
        THEN [st EXCEPT !.sig.numWorkGroupsRegAddr = offset]
        ELSE IF value = UserDataMapping.GdsRange
        THEN [st EXCEPT !.alerts =
                 IF offset = mmCOMPUTE_USER_DATA_0 + GdsRangeRegCompute THEN @
                 ELSE @ \cup {"Signature:GdsRange"}]
        ELSE IF value = UserDataMapping.PerShaderPerfData
        THEN [st EXCEPT !.sig.perfDataAddr = offset, !.regOffset = offset]
        ELSE IF value \in GraphicsOnlyMappings
        THEN [st EXCEPT !.alerts = @ \cup {"Signature:graphicsOnly"}]
        ELSE [st EXCEPT !.alerts = @ \cup {"Signature:neverCalled"}]

RECURSIVE SignatureLoop(_, _, _)
SignatureLoop(st, registers, offset) ==
    IF offset > mmCOMPUTE_USER_DATA_15 THEN st
    ELSE SignatureLoop(SignatureStep(st, registers, offset), registers, offset + 1)

\* ComputePipeline::SetupSignatureFromElf
SetupSignatureFromElf(sig, regOffset, md, registers) ==
    LET st0 == [sig |-> [sig EXCEPT !.stage.firstUserSgprRegAddr =
                                       mmCOMPUTE_USER_DATA_0 + FastUserDataStartReg],
                regOffset |-> regOffset, alerts |-> {},
                outOfRangeWrite |-> FALSE]
        st1 == SignatureLoop(st0, registers, mmCOMPUTE_USER_DATA_0)
        s2  == IF md.hasSpillThreshold
               THEN [st1.sig EXCEPT !.spillThreshold = md.spillThreshold]
               ELSE st1.sig
        s3  == IF md.hasUserDataLimit
               THEN [s2 EXCEPT !.userDataLimit = md.userDataLimit] ELSE s2
    IN  [st1 EXCEPT !.sig = s3]

\* what a store to mappedEntry[userSgprId] past the array's 16 entries can
\* leave behind: nothing visible, or a clobbered neighbouring member
SignatureOutcomes(st) ==
    IF st.outOfRangeWrite
    THEN {st.sig, [st.sig EXCEPT !.stage.userSgprCount = 0],
          [st.sig EXCEPT !.stage.spillTableRegAddr = 1]}
    ELSE {st.sig}

\* LoadedShRegCount(chipProps)
BaseLoadedShRegCount == 7

\* mutant: the SPP checksum register is left out of the reserved count
LoadedShRegCount_WithoutSpp(chipProps) == BaseLoadedShRegCount

LoadedShRegCount(chipProps) == BaseLoadedShRegCount + chipProps.supportSpp

\* PipelineUploader::EnableLoadIndexPath
EnableLoadIndexPath(up) ==
    up.m_ctxRegGpuVirtAddr # 0 \/ up.m_shRegGpuVirtAddr # 0

\* ---- command-encoding utility (CmdUtil): packet headers
\* a SET_SH_REG header for [startReg, endReg]; returns the packet size
BuildSetSeqShRegs(startReg, endReg) ==
    [hdr  |-> [op |-> "SET_SH_REG", reg |-> startReg, count |-> endReg - startReg + 1],
     size |-> ShRegSizeDwords + (endReg - startReg + 1)]
BuildSetOneShReg(reg) == BuildSetSeqShRegs(reg, reg)
BuildNop(numDwords) ==
    [hdr |-> [op |-> "NOP", reg |-> 0, count |-> numDwords - ShRegSizeDwords],
     size |-> numDwords]
BuildLoadShRegsIndex(gpuVirtAddr, count) ==
    [op |-> "LOAD_SH_REG_INDEX", addr |-> gpuVirtAddr, count |-> count]

\* the header occupies ShRegSizeDwords words of the image
HdrWords(hdr) == <<hdr, hdr.reg>>

ZeroHdr == [op |-> "", reg |-> 0, count |-> 0]
ZeroRsrc2  == [LDS_SIZE |-> 0, TRAP_PRESENT |-> 0, other |-> 0]
ZeroLimits == [WAVES_PER_SH |-> 0, TG_PER_CU |-> 0, LOCK_THRESHOLD |-> 0,
               SIMD_DEST_CNTL |-> 0, FORCE_SIMD_DIST |-> 0]

\* ComputePipeline::ComputePipeline: memset(&m_commands, 0, ...)
ZeroCommands ==
    [set |-> [hdrComputePgm |-> ZeroHdr, computePgmLo |-> 0, computePgmHi |-> 0,
              hdrComputeUserData |-> ZeroHdr, computeUserDataLo |-> 0,
              hdrComputePgmRsrc1 |-> ZeroHdr, computePgmRsrc1 |-> 0,
              hdrComputeNumThread |-> ZeroHdr, computeNumThreadX |-> 0,
              computeNumThreadY |-> 0, computeNumThreadZ |-> 0,
              hdrComputeShaderChksum |-> ZeroHdr, computeShaderChksum |-> 0,
              spaceNeeded |-> 0],
     loadIndex |-> [loadShRegIndex |-> [op |-> "", addr |-> 0, count |-> 0]],
     dynamic |-> [hdrComputePgmRsrc2 |-> ZeroHdr, computePgmRsrc2 |-> ZeroRsrc2,
                  hdrComputeResourceLimits |-> ZeroHdr,
                  computeResourceLimits |-> ZeroLimits],
     prefetch |-> [spaceNeeded |-> 0, words |-> <<>>]]

\* mutant: the header pass also fills a register value
BuildPm4Headers_FillsRsrc1(cmds, up, chipProps) ==
    [cmds EXCEPT !.set.hdrComputePgm =
                     BuildSetSeqShRegs(mmCOMPUTE_PGM_LO, mmCOMPUTE_PGM_HI).hdr,
                 !.set.computePgmRsrc1 = 1]

\* ComputePipeline::BuildPm4Headers
BuildPm4Headers(cmds, up, chipProps) ==
    LET numThread == BuildSetSeqShRegs(mmCOMPUTE_NUM_THREAD_X, mmCOMPUTE_NUM_THREAD_Z)
        pgm       == BuildSetSeqShRegs(mmCOMPUTE_PGM_LO, mmCOMPUTE_PGM_HI)
        rsrc1     == BuildSetOneShReg(mmCOMPUTE_PGM_RSRC1)
        userData  == BuildSetOneShReg(mmCOMPUTE_USER_DATA_0 + ConstBufTblStartReg)
        chksum    == IF chipProps.supportSpp = 1
                     THEN BuildSetOneShReg(mmCOMPUTE_SHADER_CHKSUM)
                     ELSE BuildNop(ShRegSizeDwords + 1)
    IN  [cmds EXCEPT
            !.set.hdrComputeNumThread    = numThread.hdr,
            !.set.hdrComputePgm          = pgm.hdr,
            !.set.hdrComputePgmRsrc1     = rsrc1.hdr,
            !.set.hdrComputeUserData     = userData.hdr,
            !.set.hdrComputeShaderChksum = chksum.hdr,
            !.set.spaceNeeded = numThread.size + pgm.size + rsrc1.size
                                    + userData.size + chksum.size,
            !.loadIndex.loadShRegIndex =
                IF EnableLoadIndexPath(up)
                THEN BuildLoadShRegsIndex(up.m_shRegGpuVirtAddr, up.m_shRegisterCount)
                ELSE @,
            !.dynamic.hdrComputePgmRsrc2 = BuildSetOneShReg(mmCOMPUTE_PGM_RSRC2).hdr,
            !.dynamic.hdrComputeResourceLimits =
                BuildSetOneShReg(mmCOMPUTE_RESOURCE_LIMITS).hdr]

\* PipelineUploader::GetPipelineSymbolGpuVirtAddr: the symbol's GPU address
GetPipelineSymbolGpuVirtAddr(up, symbol) ==
    IF symbol.present
    THEN [result |-> "Success", value |-> up.m_codeGpuVirtAddr + symbol.value,
          size |-> symbol.size]
    ELSE [result |-> "ErrorUnavailable", value |-> 0, size |-> 0]

\* HwlInit, lines 225-265: the register values of the set image
FillSetImage(cmds, up, md, registers, chipProps) ==
    LET csProgram  == GetPipelineSymbolGpuVirtAddr(up, md.csMainEntry)
        csSrdTable == GetPipelineSymbolGpuVirtAddr(up, md.csShdrIntrlTblPtr)
    IN  [cmds EXCEPT
            !.set.computePgmLo = IF csProgram.result = "Success"
                                 THEN LowPart(csProgram.value \div 256) ELSE @,
            !.set.computePgmHi = IF csProgram.result = "Success" THEN 0 ELSE @,
            !.set.computeUserDataLo = IF csSrdTable.result = "Success"
                                      THEN LowPart(csSrdTable.value) ELSE @,
            !.set.computePgmRsrc1   = registers[mmCOMPUTE_PGM_RSRC1],
            !.dynamic.computePgmRsrc2 = registers[mmCOMPUTE_PGM_RSRC2],
            !.set.computeNumThreadX = registers[mmCOMPUTE_NUM_THREAD_X],
            !.set.computeNumThreadY = registers[mmCOMPUTE_NUM_THREAD_Y],
            !.set.computeNumThreadZ = registers[mmCOMPUTE_NUM_THREAD_Z],
            !.set.computeShaderChksum =
                IF chipProps.supportSpp = 1
                   /\ HasEntry(registers, mmCOMPUTE_SHADER_CHKSUM)
                THEN registers[mmCOMPUTE_SHADER_CHKSUM] ELSE @]

\* HwlInit, lines 267-283: the (address, value) pairs staged for LOAD_SH_REG_INDEX
ShRegsToAdd(cmds, chipProps) ==
    <<  <<mmCOMPUTE_PGM_LO, cmds.set.computePgmLo>>,
        <<mmCOMPUTE_PGM_HI, cmds.set.computePgmHi>>,
        <<mmCOMPUTE_USER_DATA_0 + ConstBufTblStartReg, cmds.set.computeUserDataLo>>,
        <<mmCOMPUTE_PGM_RSRC1, cmds.set.computePgmRsrc1>>,
        <<mmCOMPUTE_NUM_THREAD_X, cmds.set.computeNumThreadX>>,
        <<mmCOMPUTE_NUM_THREAD_Y, cmds.set.computeNumThreadY>>,
        <<mmCOMPUTE_NUM_THREAD_Z, cmds.set.computeNumThreadZ>> >>
    \o (IF chipProps.supportSpp = 1
        THEN << <<mmCOMPUTE_SHADER_CHKSUM, cmds.set.computeShaderChksum>> >>
        ELSE <<>>)

RECURSIVE AddShRegs(_, _)
AddShRegs(up, regs) ==
    IF regs = <<>> THEN up
    ELSE AddShRegs(AddShReg(up, regs[1][1], regs[1][2]), Tail(regs))

\* HwlInit, lines 267-283
StageShRegs(up, cmds, chipProps) ==
    IF EnableLoadIndexPath(up) THEN AddShRegs(up, ShRegsToAdd(cmds, chipProps))
    ELSE up

\* regCOMPUTE_NUM_THREAD_X::bits.NUM_THREAD_FULL: the low 16 bits
NumThreadFull(u32All) == u32All % 65536

RoundUpQuotient(dividend, divisor) == (dividend + divisor - 1) \div divisor

\* mutant: every even waves-per-group count selects mode 1
SimdDestCntl_EvenWaves(wavesPerGroup) == IF wavesPerGroup % 2 = 0 THEN 1 ELSE 0

\* HwlInit, line 294: ((wavesPerGroup % 4) == 0) ? 1 : 0
SimdDestCntl(wavesPerGroup) == IF wavesPerGroup % 4 = 0 THEN 1 ELSE 0

\* mutant: the test looks at the parity of the per-array CU count only
ForceSimdDist_OddCuOnly(chipProps, wavesPerGroup) ==
    chipProps.numCuPerSh % 2 = 1 /\ wavesPerGroup = 1

\* HwlInit, line 298: ((numShaderArrays * numCuPerSh) & 0x3) && (wavesPerGroup == 1)
ForceSimdDist(chipProps, wavesPerGroup) ==
    (chipProps.numShaderArrays * chipProps.numCuPerSh) % 4 # 0 /\ wavesPerGroup = 1

\* HwlInit, lines 286-335: the register values of the dynamic image
FillDynamicImage(cmds, registers, chipProps, settings) ==
    LET limits0 == IF HasEntry(registers, mmCOMPUTE_RESOURCE_LIMITS)
                   THEN registers[mmCOMPUTE_RESOURCE_LIMITS]
                   ELSE cmds.dynamic.computeResourceLimits
        threadsPerGroup == NumThreadFull(cmds.set.computeNumThreadX)
                               * NumThreadFull(cmds.set.computeNumThreadY)
                               * NumThreadFull(cmds.set.computeNumThreadZ)
        wavesPerGroup == RoundUpQuotient(threadsPerGroup, 64)
        limits1 == [limits0 EXCEPT !.SIMD_DEST_CNTL = SimdDestCntl(wavesPerGroup)]
        limits2 == IF ForceSimdDist(chipProps, wavesPerGroup)
                   THEN [limits1 EXCEPT !.FORCE_SIMD_DIST = 1] ELSE limits1
        trap    == settings.legacyHwsTrapHandlerPresent /\ chipProps.gfxLevel = "GfxIp9"
        limits3 == [limits2 EXCEPT !.LOCK_THRESHOLD =
                       Min(settings.csLockThreshold \div 4, 252 \div 4)]
        limits4 == IF settings.csSimdDestCntl = "CsSimdDestCntlForce1"
                   THEN [limits3 EXCEPT !.SIMD_DEST_CNTL = 1]
                   ELSE IF settings.csSimdDestCntl = "CsSimdDestCntlForce0"
                   THEN [limits3 EXCEPT !.SIMD_DEST_CNTL = 0]
                   ELSE limits3
    IN  [cmds EXCEPT
            !.dynamic.computeResourceLimits = limits4,
            !.dynamic.computePgmRsrc2.TRAP_PRESENT = IF trap THEN 1 ELSE @]

\* CmdUtil::BuildPipelinePrefetchPm4: the prefetch packet over the code
BuildPipelinePrefetchPm4(cmds, up, settings) ==
    [cmds EXCEPT !.prefetch =
        IF settings.enablePrefetch
        THEN [spaceNeeded |-> 3,
              words |-> <<"PRIME_UTCL2", up.m_prefetchGpuVirtAddr, up.m_prefetchSize>>]
        ELSE @]

\* ---- ComputePipeline::WriteCommands
\* CmdStream::WritePm4Image: the first spaceNeeded DWORDs of the image
WritePm4Image(spaceNeeded, words) == SubSeq(words, 1, spaceNeeded)

SetImageWords(set) ==
    HdrWords(set.hdrComputePgm) \o <<set.computePgmLo, set.computePgmHi>>
    \o HdrWords(set.hdrComputeUserData) \o <<set.computeUserDataLo>>
    \o HdrWords(set.hdrComputePgmRsrc1) \o <<set.computePgmRsrc1>>
    \o HdrWords(set.hdrComputeNumThread)
    \o <<set.computeNumThreadX, set.computeNumThreadY, set.computeNumThreadZ>>
    \o HdrWords(set.hdrComputeShaderChksum) \o <<set.computeShaderChksum>>

\* sizeof(PM4_ME_LOAD_SH_REG_INDEX) / sizeof(uint32)
LoadIndexDwords == 5
LoadIndexWords(loadIndex) ==
    <<loadIndex.loadShRegIndex, loadIndex.loadShRegIndex.addr, 0, 0,
      loadIndex.loadShRegIndex.count>>

DynamicWords(dyn) ==
    HdrWords(dyn.hdrComputePgmRsrc2) \o <<dyn.computePgmRsrc2>>
    \o HdrWords(dyn.hdrComputeResourceLimits) \o <<dyn.computeResourceLimits>>

\* ComputePipeline::CalcMaxWavesPerSh
CalcMaxWavesPerSh(maxWavesPerCu, chipProps) ==
    IF maxWavesPerCu > 0
    THEN Min(chipProps.numSimdPerCu * chipProps.numWavesPerSimd * chipProps.numCuPerSh,
             maxWavesPerCu * chipProps.numCuPerSh)
    ELSE 0

Gfx9LdsDwGranularity      == 128
Gfx9LdsDwGranularityShift == 7
Gfx9MaxTgPerCu            == 15

\* WriteCommands, lines 404-420: the bind-time patches of the dynamic image
PatchDynamic(dyn, csInfo, chipProps) ==
    LET d1 == [dyn EXCEPT !.computeResourceLimits.TG_PER_CU =
                              Min(csInfo.maxThreadGroupsPerCu, Gfx9MaxTgPerCu)]
        d2 == IF csInfo.maxWavesPerCu > 0
              THEN [d1 EXCEPT !.computeResourceLimits.WAVES_PER_SH =
                                  CalcMaxWavesPerSh(csInfo.maxWavesPerCu, chipProps)]
              ELSE d1
    IN  IF csInfo.ldsBytesPerTg > 0
        THEN [d2 EXCEPT !.computePgmRsrc2.LDS_SIZE =
                 Pow2Align(csInfo.ldsBytesPerTg \div 4, Gfx9LdsDwGranularity)
                     \div (2 ^ Gfx9LdsDwGranularityShift)]
        ELSE d2

\* mutant: the PM4 optimizer is not consulted
UseSetPath_IgnoresOptimizer(cmds, stream) ==
    \/ cmds.loadIndex.loadShRegIndex.op = ""
    \/ stream.engineType = "EngineTypeCompute"

\* WriteCommands, lines 389-392
UseSetPath(cmds, stream) ==
    \/ cmds.loadIndex.loadShRegIndex.op = ""
    \/ stream.pm4OptimizerEnabled
    \/ stream.engineType = "EngineTypeCompute"

\* ComputePipeline::WriteCommands: the DWORDs written at pCmdSpace
WriteCommands(cmds, perfData, chipProps, stream, csInfo, prefetch) ==
    (IF UseSetPath(cmds, stream)
     THEN WritePm4Image(cmds.set.spaceNeeded, SetImageWords(cmds.set))
     ELSE WritePm4Image(LoadIndexDwords, LoadIndexWords(cmds.loadIndex)))
    \o WritePm4Image(6, DynamicWords(PatchDynamic(cmds.dynamic, csInfo, chipProps)))
    \o (IF perfData.regOffset # UserDataNotMapped
        THEN HdrWords(BuildSetOneShReg(perfData.regOffset).hdr) \o <<perfData.gpuVirtAddr>>
        ELSE <<>>)
    \o (IF prefetch
        THEN WritePm4Image(cmds.prefetch.spaceNeeded, cmds.prefetch.words)
        ELSE <<>>)

\* mutant: the dynamic image is patched through a reference to the template
CommandsAfterWrite_PatchedInPlace(cmds, csInfo, chipProps) ==
    [cmds EXCEPT !.dynamic = PatchDynamic(@, csInfo, chipProps)]

\* mutant: the wave limit computed for one bind stays in the template
CommandsAfterWrite_KeepsWaveLimit(cmds, csInfo, chipProps) ==
    [cmds EXCEPT !.dynamic.computeResourceLimits.WAVES_PER_SH =
        PatchDynamic(cmds.dynamic, csInfo, chipProps).computeResourceLimits.WAVES_PER_SH]

\* WriteCommands is const and patches a copy (line 404): m_commands after it
CommandsAfterWrite(cmds, csInfo, chipProps) == cmds

\* ================================================ Gfx9::PipelineChunkVsPs
\* register addresses (SH and context register space)
mmSPI_SHADER_PGM_RSRC4_PS    == 11265
mmSPI_SHADER_PGM_CHKSUM_PS   == 11270
mmSPI_SHADER_PGM_RSRC3_PS    == 11271
mmSPI_SHADER_PGM_LO_PS       == 11272
mmSPI_SHADER_PGM_HI_PS       == 11273
mmSPI_SHADER_PGM_RSRC1_PS    == 11274
mmSPI_SHADER_PGM_RSRC2_PS    == 11275
mmSPI_SHADER_USER_DATA_PS_0  == 11276
mmSPI_SHADER_REQ_CTRL_PS     == 11312
mmSPI_SHADER_USER_ACCUM_PS_0 == 11314
mmSPI_SHADER_USER_ACCUM_PS_3 == 11317
mmSPI_SHADER_PGM_RSRC4_VS    == 11329
mmSPI_SHADER_PGM_CHKSUM_VS   == 11333
mmSPI_SHADER_PGM_RSRC3_VS    == 11334
mmSPI_SHADER_PGM_LO_VS       == 11336
mmSPI_SHADER_PGM_HI_VS       == 11337
mmSPI_SHADER_PGM_RSRC1_VS    == 11338
mmSPI_SHADER_PGM_RSRC2_VS    == 11339
mmSPI_SHADER_USER_DATA_VS_0  == 11340
mmSPI_SHADER_REQ_CTRL_VS     == 11376
mmSPI_SHADER_USER_ACCUM_VS_0 == 11378
mmSPI_SHADER_USER_ACCUM_VS_3 == 11381
mmSPI_PS_INPUT_CNTL_0        == 41361
mmSPI_PS_INPUT_ENA           == 41395
mmSPI_PS_INPUT_ADDR          == 41396
mmSPI_BARYC_CNTL             == 41400
mmSPI_SHADER_POS_FORMAT      == 41411
mmSPI_SHADER_Z_FORMAT        == 41412
mmSPI_SHADER_COL_FORMAT      == 41413
mmDB_SHADER_CONTROL          == 41475
mmPA_CL_VS_OUT_CNTL          == 41479
mmVGT_PRIMITIVEID_EN         == 41633
mmVGT_STRMOUT_VTX_STRIDE_0   == 41654
mmVGT_STRMOUT_VTX_STRIDE_1   == 41658
mmVGT_STRMOUT_VTX_STRIDE_2   == 41662
mmVGT_STRMOUT_VTX_STRIDE_3   == 41666
mmVGT_STRMOUT_CONFIG         == 41701
mmVGT_STRMOUT_BUFFER_CONFIG  == 41702
mmPA_SC_AA_CONFIG            == 41720
mmPA_SC_SHADER_CONTROL       == 41744
mmPA_SC_BINNER_CNTL_1        == 41747

MaxPsInputSemantics  == 32
MaxStreamOutTargets  == 4
ContextRegSizeDwords == 2
ContextRegRmwDwords  == 4      \* sizeof(PM4_ME_CONTEXT_REG_RMW) / sizeof(uint32)
HwStageVs            == 4      \* Abi::HardwareStage::Vs
HwStagePs            == 5      \* Abi::HardwareStage::Ps
Gfx10ForceWaveBreakSizeClient == 4

\* lines 42-43
VgtStrmoutVtxStrideAddr ==
    <<mmVGT_STRMOUT_VTX_STRIDE_0, mmVGT_STRMOUT_VTX_STRIDE_1,
      mmVGT_STRMOUT_VTX_STRIDE_2, mmVGT_STRMOUT_VTX_STRIDE_3>>

\* lines 46-86: what LOAD_SH_REG_INDEX / LOAD_CNTX_REG_INDEX always load
BaseLoadedShRegCountPs          == 5
BaseLoadedShRegCountVs          == 5
BaseLoadedCntxRegCount          == 13
BaseLoadedCntxRegCountStreamOut == 4

IsGfx10(gfxLevel) == gfxLevel = "GfxIp10_1"

\* RegisterVector::HasEntry(offset, &value): value is written only when found
EntryOr(registers, offset, value) ==
    IF HasEntry(registers, offset) THEN registers[offset] ELSE value

\* RegisterVector::At(offset)
At(registers, offset) == EntryOr(registers, offset, 0)

RECURSIVE BitAnd(_, _)
BitAnd(a, b) ==
    IF a = 0 \/ b = 0 THEN 0
    ELSE (a % 2) * (b % 2) + 2 * BitAnd(a \div 2, b \div 2)

\* Device::GetCuEnableMask / GetCuEnableMaskHi / AdjustCuEnHi (16 CUs per array)
GetCuEnableMask(disabledCuMask, enabledCuMaskSetting) ==
    BitAnd(65535 - disabledCuMask, enabledCuMaskSetting)
GetCuEnableMaskHi(disabledCuMask, enabledCuMaskSetting) ==
    BitAnd(65535 - disabledCuMask, enabledCuMaskSetting \div 65536)
AdjustCuEnHi(val, mask) == BitAnd(val, mask \div 65536)

\* ---- command-encoding utility (CmdUtil): context and indexed SH packets
BuildSetSeqContextRegs(startReg, endReg) ==
    [hdr  |-> [op |-> "SET_CONTEXT_REG", reg |-> startReg, count |-> endReg - startReg + 1],
     size |-> ContextRegSizeDwords + (endReg - startReg + 1)]
BuildSetOneContextReg(reg) == BuildSetSeqContextRegs(reg, reg)
BuildSetOneShRegIndex(reg) ==
    [hdr  |-> [op |-> "SET_SH_REG_INDEX", reg |-> reg, count |-> 1],
     size |-> ShRegSizeDwords + 1]
BuildContextRegRmw(reg, mask, data) ==
    [op |-> "CONTEXT_REG_RMW", reg |-> reg, reg_mask |-> mask, reg_data |-> data]

\* ---- the chunk's PM4 images.  Every image is a run of (header, registers)
\* groups followed by spaceNeeded; a group is [hdr, data], data holding the
\* register values in address order.
Group(n) == [hdr |-> ZeroHdr, data |-> [i \in 1..n |-> 0]]

\* PipelineChunkVsPs::PipelineChunkVsPs: memset(&m_commands, 0, ...)
ZeroVsPsCommands ==
    [sh |-> [ps |-> [hdrSpiShaderPgm |-> Group(4), hdrSpiShaderUserData |-> Group(1),
                     hdrSpiShaderPgmChksum |-> Group(1),
                     hdrSpishaderUserAccumPs |-> Group(4),
                     hdrShaderReqCtrlPs |-> Group(1), spaceNeeded |-> 0],
             vs |-> [hdrSpiShaderPgm |-> Group(4), hdrSpiShaderUserData |-> Group(1),
                     hdrSpiShaderPgmChksum |-> Group(1),
                     hdrSpishaderUserAccumVs |-> Group(4),
                     hdrShaderReqCtrlVs |-> Group(1), spaceNeeded |-> 0]],
     context |-> [hdrSpiShaderFormat |-> Group(3), hdrSpiBarycCntl |-> Group(1),
                  hdrSpiPsInput |-> Group(2), hdrDbShaderControl |-> Group(1),
                  hdrPaScShaderControl |-> Group(1), hdrPaScBinnerCntl1 |-> Group(1),
                  hdrPaClVsOutCntl |-> Group(1), hdrVgtPrimitiveIdEn |-> Group(1),
                  hdrSpiPsInputCntl |-> Group(MaxPsInputSemantics),
                  spaceNeeded |-> 0],
     streamOut |-> [headerStrmoutCfg |-> ZeroHdr, vgtStrmoutConfig |-> 0,
                    vgtStrmoutBufferConfig |-> 0,
                    stride |-> [i \in 1..MaxStreamOutTargets |->
                                  [header |-> ZeroHdr, vgtStrmoutVtxStride |-> 0]],
                    spaceNeeded |-> 0],
     dynamic |-> [ps |-> [hdrPgmRsrc3Ps |-> ZeroHdr, spiShaderPgmRsrc3Ps |-> 0,
                          hdrPgmRsrc4Ps |-> ZeroHdr, spiShaderPgmRsrc4Ps |-> 0,
                          spaceNeeded |-> 0],
                  vs |-> [hdrPgmRsrc3Vs |-> ZeroHdr, spiShaderPgmRsrc3Vs |-> 0,
                          hdrPgmRsrc4Vs |-> ZeroHdr, spiShaderPgmRsrc4Vs |-> 0,
                          spaceNeeded |-> 0]],
     common |-> [paScAaConfig |-> [op |-> "", reg |-> 0, reg_mask |-> 0, reg_data |-> 0]]]

\* PipelineChunkVsPs::VgtStrmoutConfig
VgtStrmoutConfig(cmds) == cmds.streamOut.vgtStrmoutConfig

\* EarlyInit, lines 121-131: the interpolators are the leading run of entries
RECURSIVE InterpolatorCount(_, _)
InterpolatorCount(registers, i) ==
    IF i >= MaxPsInputSemantics \/ ~HasEntry(registers, mmSPI_PS_INPUT_CNTL_0 + i)
    THEN i
    ELSE InterpolatorCount(registers, i + 1)

\* mutant: the stream-out strides are reserved whether stream-out is on or not
VsPs_LoadedCtxRegCount_AlwaysStrides(cmds, interpolatorCount) ==
    BaseLoadedCntxRegCount + interpolatorCount + BaseLoadedCntxRegCountStreamOut

\* EarlyInit, lines 135 and 143-146: the context registers the chunk reserves
VsPs_LoadedCtxRegCount(cmds, interpolatorCount) ==
    BaseLoadedCntxRegCount + interpolatorCount
        + (IF VgtStrmoutConfig(cmds) # 0 THEN BaseLoadedCntxRegCountStreamOut ELSE 0)

\* EarlyInit, lines 136-141 and 148-163: the SH registers the chunk reserves
VsPs_LoadedShRegCount(enableNgg, chipProps) ==
    LET spp == IF chipProps.supportSpp = 1 THEN 1 ELSE 0
    IN  (BaseLoadedShRegCountPs + spp)
        + (IF ~enableNgg THEN BaseLoadedShRegCountVs + spp ELSE 0)
        + (IF IsGfx10(chipProps.gfxLevel) THEN (IF enableNgg THEN 1 ELSE 2) ELSE 0)
        + (IF chipProps.supportSpiPrefPriority
           THEN (IF ~enableNgg THEN 4 ELSE 0) + 4 ELSE 0)

\* PipelineChunkVsPs::EarlyInit: the images and *pInfo after the call
VsPs_EarlyInit(cmds, registers, info, chipProps, settings) ==
    LET c1    == [cmds EXCEPT !.streamOut.vgtStrmoutConfig =
                                  EntryOr(registers, mmVGT_STRMOUT_CONFIG, @)]
        count == InterpolatorCount(registers, 0)
        \* the loop stores every entry it probes, the counted ones included
        c2    == [c1 EXCEPT !.context.hdrSpiPsInputCntl.data =
                     [i \in 1..MaxPsInputSemantics |->
                         IF i <= count THEN registers[mmSPI_PS_INPUT_CNTL_0 + i - 1]
                         ELSE @[i]]]
        i1    == [info EXCEPT !.interpolatorCount = count]
    IN  [commands |-> c2,
         info |-> IF settings.enableLoadIndexForObjectBinds
                  THEN [i1 EXCEPT
                          !.loadedCtxRegCount = @ + VsPs_LoadedCtxRegCount(c2, count),
                          !.loadedShRegCount  =
                              @ + VsPs_LoadedShRegCount(info.enableNgg, chipProps)]
                  ELSE i1]

\* mutant: an inapplicable range is left out, no filler takes its place
SetOrNop_NoFiller(applicable, packet, numDwords) ==
    IF applicable THEN packet ELSE [hdr |-> ZeroHdr, size |-> 0]

\* BuildPm4Headers, lines 620-672 and 764-799: the header of a register range
\* on hardware that has it, else a NOP of the same number of DWORDs
SetOrNop(applicable, packet, numDwords) ==
    IF applicable THEN packet ELSE BuildNop(numDwords)

\* PipelineChunkVsPs::BuildPm4Headers
VsPs_BuildPm4Headers(cmds, enableLoadIndexPath, loadInfo, chipProps) ==
    LET ngg   == loadInfo.enableNgg
        spp   == chipProps.supportSpp # 0
        gfx10 == IsGfx10(chipProps.gfxLevel)
        pref  == chipProps.supportSpiPrefPriority
        shaderPgmCnt == mmSPI_SHADER_PGM_RSRC2_VS - mmSPI_SHADER_PGM_LO_VS + 1
        \* sh.ps
        psPgm    == BuildSetSeqShRegs(mmSPI_SHADER_PGM_LO_PS, mmSPI_SHADER_PGM_RSRC2_PS)
        psUser   == BuildSetOneShReg(mmSPI_SHADER_USER_DATA_PS_0 + ConstBufTblStartReg)
        psChksum == SetOrNop(spp, BuildSetOneShReg(mmSPI_SHADER_PGM_CHKSUM_PS),
                             ShRegSizeDwords + 1)
        psAccum  == SetOrNop(pref,
                             BuildSetSeqShRegs(mmSPI_SHADER_USER_ACCUM_PS_0,
                                               mmSPI_SHADER_USER_ACCUM_PS_3),
                             ShRegSizeDwords + 4)
        psReq    == SetOrNop(gfx10, BuildSetOneShReg(mmSPI_SHADER_REQ_CTRL_PS),
                             ShRegSizeDwords + 1)
        \* sh.vs
        vsPgm    == SetOrNop(~ngg,
                             BuildSetSeqShRegs(mmSPI_SHADER_PGM_LO_VS,
                                               mmSPI_SHADER_PGM_RSRC2_VS),
                             ShRegSizeDwords + shaderPgmCnt)
        vsUser   == SetOrNop(~ngg,
                             BuildSetOneShReg(mmSPI_SHADER_USER_DATA_VS_0
                                                  + ConstBufTblStartReg),
                             ShRegSizeDwords + 1)
        vsChksum == SetOrNop(~ngg /\ spp, BuildSetOneShReg(mmSPI_SHADER_PGM_CHKSUM_VS),
                             ShRegSizeDwords + 1)
        vsReq    == SetOrNop(~ngg /\ gfx10, BuildSetOneShReg(mmSPI_SHADER_REQ_CTRL_VS),
                             ShRegSizeDwords + 1)
        vsAccum  == SetOrNop(pref /\ ~ngg,
                             BuildSetSeqShRegs(mmSPI_SHADER_USER_ACCUM_VS_0,
                                               mmSPI_SHADER_USER_ACCUM_VS_3),
                             ShRegSizeDwords + 4)
        \* context
        format   == BuildSetSeqContextRegs(mmSPI_SHADER_POS_FORMAT, mmSPI_SHADER_COL_FORMAT)
        baryc    == BuildSetOneContextReg(mmSPI_BARYC_CNTL)
        psInput  == BuildSetSeqContextRegs(mmSPI_PS_INPUT_ENA, mmSPI_PS_INPUT_ADDR)
        dbShader == BuildSetOneContextReg(mmDB_SHADER_CONTROL)
        paSc     == BuildSetOneContextReg(mmPA_SC_SHADER_CONTROL)
        binner   == BuildSetOneContextReg(mmPA_SC_BINNER_CNTL_1)
        vsOut    == BuildSetOneContextReg(mmPA_CL_VS_OUT_CNTL)
        primId   == BuildSetOneContextReg(mmVGT_PRIMITIVEID_EN)
        inputCntl == BuildSetSeqContextRegs(
                         mmSPI_PS_INPUT_CNTL_0,
                         mmSPI_PS_INPUT_CNTL_0 + loadInfo.interpolatorCount - 1)
        hasCntl  == loadInfo.interpolatorCount > 0
        \* streamOut
        strmCfg  == BuildSetSeqContextRegs(mmVGT_STRMOUT_CONFIG, mmVGT_STRMOUT_BUFFER_CONFIG)
        strmOn   == VgtStrmoutConfig(cmds) # 0
        \* dynamic
        rsrc3Ps  == BuildSetOneShRegIndex(mmSPI_SHADER_PGM_RSRC3_PS)
        rsrc4Ps  == BuildSetOneShRegIndex(mmSPI_SHADER_PGM_RSRC4_PS)
        rsrc3Vs  == BuildSetOneShRegIndex(mmSPI_SHADER_PGM_RSRC3_VS)
        rsrc4Vs  == BuildSetOneShRegIndex(mmSPI_SHADER_PGM_RSRC4_VS)
    IN  [cmds EXCEPT
            !.sh.ps.hdrSpiShaderPgm.hdr         = psPgm.hdr,
            !.sh.ps.hdrSpiShaderUserData.hdr    = psUser.hdr,
            !.sh.ps.hdrSpiShaderPgmChksum.hdr   = psChksum.hdr,
            !.sh.ps.hdrSpishaderUserAccumPs.hdr = psAccum.hdr,
            !.sh.ps.hdrShaderReqCtrlPs.hdr      = psReq.hdr,
            !.sh.ps.spaceNeeded = psPgm.size + psUser.size + psChksum.size
                                      + psAccum.size + psReq.size,
            !.sh.vs.hdrSpiShaderPgm.hdr         = vsPgm.hdr,
            !.sh.vs.hdrSpiShaderUserData.hdr    = vsUser.hdr,
            !.sh.vs.hdrSpiShaderPgmChksum.hdr   = vsChksum.hdr,
            !.sh.vs.hdrSpishaderUserAccumVs.hdr = vsAccum.hdr,
            !.sh.vs.hdrShaderReqCtrlVs.hdr      = vsReq.hdr,
            !.sh.vs.spaceNeeded = @ + vsPgm.size + vsUser.size + vsChksum.size
                                      + vsReq.size + vsAccum.size,
            !.context.hdrSpiShaderFormat.hdr   = format.hdr,
            !.context.hdrSpiBarycCntl.hdr      = baryc.hdr,
            !.context.hdrSpiPsInput.hdr        = psInput.hdr,
            !.context.hdrDbShaderControl.hdr   = dbShader.hdr,
            !.context.hdrPaScShaderControl.hdr = paSc.hdr,
            !.context.hdrPaScBinnerCntl1.hdr   = binner.hdr,
            !.context.hdrPaClVsOutCntl.hdr     = vsOut.hdr,
            !.context.hdrVgtPrimitiveIdEn.hdr  = primId.hdr,
            !.context.hdrSpiPsInputCntl.hdr    = IF hasCntl THEN inputCntl.hdr ELSE @,
            !.context.spaceNeeded =
                format.size + baryc.size + psInput.size + dbShader.size + paSc.size
                    + binner.size + vsOut.size + primId.size
                    + (IF hasCntl THEN inputCntl.size ELSE 0),
            !.streamOut.headerStrmoutCfg = strmCfg.hdr,
            !.streamOut.stride =
                [i \in 1..MaxStreamOutTargets |->
                    IF strmOn
                    THEN [@[i] EXCEPT !.header =
                             BuildSetOneContextReg(VgtStrmoutVtxStrideAddr[i]).hdr]
                    ELSE @[i]],
            !.streamOut.spaceNeeded =
                strmCfg.size
                    + (IF strmOn
                       THEN MaxStreamOutTargets
                                * BuildSetOneContextReg(mmVGT_STRMOUT_VTX_STRIDE_0).size
                       ELSE 0),
            !.dynamic.ps.hdrPgmRsrc3Ps = rsrc3Ps.hdr,
            !.dynamic.ps.hdrPgmRsrc4Ps = IF gfx10 THEN rsrc4Ps.hdr ELSE @,
            !.dynamic.ps.spaceNeeded = rsrc3Ps.size + (IF gfx10 THEN rsrc4Ps.size ELSE 0),
            !.dynamic.vs.hdrPgmRsrc3Vs = IF ~ngg THEN rsrc3Vs.hdr ELSE @,
            !.dynamic.vs.hdrPgmRsrc4Vs = IF ~ngg /\ gfx10 THEN rsrc4Vs.hdr ELSE @,
            !.dynamic.vs.spaceNeeded =
                IF ~ngg THEN rsrc3Vs.size + (IF gfx10 THEN rsrc4Vs.size ELSE 0) ELSE @,
            !.common.paScAaConfig = BuildContextRegRmw(mmPA_SC_AA_CONFIG, 1, 0)]

\* register bit fields: the field of width bits at shift is read / replaced
GetBits(value, shift, width) == (value \div (2 ^ shift)) % (2 ^ width)
SetBits(value, shift, width, field) ==
    value - GetBits(value, shift, width) * (2 ^ shift)
          + (field % (2 ^ width)) * (2 ^ shift)

\* Get256BAddrLo / Get256BAddrHi
Get256BAddrLo(virtAddr) == LowPart(virtAddr \div 256)
Get256BAddrHi(virtAddr) == 0

\* LateInit, lines 185-345: the register values of the images
VsPs_FillImages(cmds, up, md, registers, loadInfo, chipProps, settings) ==
    LET ngg   == loadInfo.enableNgg
        spp   == chipProps.supportSpp # 0
        gfx10 == IsGfx10(chipProps.gfxLevel)
        pref  == chipProps.supportSpiPrefPriority
        psVa  == up.m_codeGpuVirtAddr + md.psMainEntry.value
        vsVa  == up.m_codeGpuVirtAddr + md.vsMainEntry.value
        accum(old, first) ==
            [i \in 1..4 |-> EntryOr(registers, first + i - 1, old[i])]
        reqCtrl(old, waves) ==
            IF waves > 0 THEN SetBits(SetBits(old, 0, 1, 1), 1, 4, waves - 1) ELSE old
        \* ---- pixel stage
        psPgm == [cmds.sh.ps.hdrSpiShaderPgm.data EXCEPT
                    ![1] = IF md.psMainEntry.present THEN Get256BAddrLo(psVa) ELSE @,
                    ![2] = IF md.psMainEntry.present THEN Get256BAddrHi(psVa) ELSE @,
                    ![3] = SetBits(At(registers, mmSPI_SHADER_PGM_RSRC1_PS), 24, 1,
                                   IF settings.numPsWavesSoftGroupedPerCu > 0 THEN 0 ELSE 1),
                    ![4] = At(registers, mmSPI_SHADER_PGM_RSRC2_PS)]
        c1 == [cmds EXCEPT
                 !.sh.ps.hdrSpiShaderPgm.data = psPgm,
                 !.sh.ps.hdrSpiShaderUserData.data[1] =
                     IF md.psShdrIntrlTblPtr.present
                     THEN LowPart(up.m_dataGpuVirtAddr + md.psShdrIntrlTblPtr.value)
                     ELSE @,
                 !.sh.ps.hdrSpiShaderPgmChksum.data[1] =
                     IF spp THEN EntryOr(registers, mmSPI_SHADER_PGM_CHKSUM_PS, @) ELSE @,
                 !.dynamic.ps.spiShaderPgmRsrc3Ps =
                     SetBits(EntryOr(registers, mmSPI_SHADER_PGM_RSRC3_PS, @), 0, 16,
                             GetCuEnableMask(0, settings.psCuEnLimitMask)),
                 !.dynamic.ps.spiShaderPgmRsrc4Ps =
                     IF gfx10
                     THEN SetBits(@, 0, 16, GetCuEnableMaskHi(0, settings.psCuEnLimitMask))
                     ELSE @,
                 !.sh.ps.hdrSpishaderUserAccumPs.data =
                     IF gfx10 /\ pref THEN accum(@, mmSPI_SHADER_USER_ACCUM_PS_0) ELSE @,
                 !.sh.vs.hdrSpishaderUserAccumVs.data =
                     IF gfx10 /\ pref /\ ~ngg
                     THEN accum(@, mmSPI_SHADER_USER_ACCUM_VS_0) ELSE @,
                 !.sh.ps.hdrShaderReqCtrlPs.data[1] =
                     IF gfx10 THEN reqCtrl(@, settings.numPsWavesSoftGroupedPerCu) ELSE @,
                 !.sh.vs.hdrShaderReqCtrlVs.data[1] =
                     IF gfx10 THEN reqCtrl(@, settings.numVsWavesSoftGroupedPerCu) ELSE @]
        \* ---- vertex stage, lines 254-307
        vsCuDisableMask == IF gfx10 THEN 12 ELSE 2
        vsPgm == [c1.sh.vs.hdrSpiShaderPgm.data EXCEPT
                    ![1] = IF md.vsMainEntry.present THEN Get256BAddrLo(vsVa) ELSE @,
                    ![2] = IF md.vsMainEntry.present THEN Get256BAddrHi(vsVa) ELSE @,
                    ![3] = SetBits(At(registers, mmSPI_SHADER_PGM_RSRC1_VS), 24, 1,
                                   IF settings.numVsWavesSoftGroupedPerCu > 0 THEN 1 ELSE 0),
                    ![4] = At(registers, mmSPI_SHADER_PGM_RSRC2_VS)]
        c2 == IF ngg THEN c1
              ELSE [c1 EXCEPT
                 !.sh.vs.hdrSpiShaderPgm.data = vsPgm,
                 !.sh.vs.hdrSpiShaderUserData.data[1] =
                     IF md.vsShdrIntrlTblPtr.present
                     THEN LowPart(up.m_dataGpuVirtAddr + md.vsShdrIntrlTblPtr.value)
                     ELSE @,
                 !.sh.vs.hdrSpiShaderPgmChksum.data[1] =
                     IF spp THEN EntryOr(registers, mmSPI_SHADER_PGM_CHKSUM_VS, @) ELSE @,
                 !.dynamic.vs.spiShaderPgmRsrc3Vs =
                     SetBits(EntryOr(registers, mmSPI_SHADER_PGM_RSRC3_VS, @), 0, 16,
                             GetCuEnableMask(vsCuDisableMask, settings.vsCuEnLimitMask)),
                 !.dynamic.vs.spiShaderPgmRsrc4Vs =
                     IF gfx10
                     THEN SetBits(@, 0, 16, GetCuEnableMaskHi(0, settings.vsCuEnLimitMask))
                     ELSE @]
        \* ---- stream-out, lines 309-317
        c3 == IF VgtStrmoutConfig(c2) # 0
              THEN [c2 EXCEPT
                      !.streamOut.vgtStrmoutBufferConfig =
                          At(registers, mmVGT_STRMOUT_BUFFER_CONFIG),
                      !.streamOut.stride =
                          [i \in 1..MaxStreamOutTargets |->
                              [@[i] EXCEPT !.vgtStrmoutVtxStride =
                                  At(registers, VgtStrmoutVtxStrideAddr[i])]]]
              ELSE c2
        \* ---- context registers, lines 319-372
        vsOut == At(registers, mmPA_CL_VS_OUT_CNTL)
        clip  == md.clipDistMask
        paSc  == At(registers, mmPA_SC_SHADER_CONTROL)
    IN  [c3 EXCEPT
            !.context.hdrSpiShaderFormat.data =
                <<At(registers, mmSPI_SHADER_POS_FORMAT),
                  At(registers, mmSPI_SHADER_Z_FORMAT),
                  At(registers, mmSPI_SHADER_COL_FORMAT)>>,
            !.context.hdrSpiBarycCntl.data = <<At(registers, mmSPI_BARYC_CNTL)>>,
            !.context.hdrSpiPsInput.data =
                <<At(registers, mmSPI_PS_INPUT_ENA), At(registers, mmSPI_PS_INPUT_ADDR)>>,
            !.context.hdrDbShaderControl.data = <<At(registers, mmDB_SHADER_CONTROL)>>,
            !.context.hdrPaClVsOutCntl.data =
                <<IF clip # 0
                  THEN SetBits(vsOut, 0, 8, BitAnd(GetBits(vsOut, 0, 8), clip))
                  ELSE vsOut>>,
            !.context.hdrVgtPrimitiveIdEn.data = <<At(registers, mmVGT_PRIMITIVEID_EN)>>,
            !.context.hdrPaScShaderControl.data =
                <<IF chipProps.supportCustomWaveBreakSize
                     /\ settings.forceWaveBreakSize # Gfx10ForceWaveBreakSizeClient
                  THEN SetBits(paSc, 5, 2, settings.forceWaveBreakSize)
                  ELSE paSc>>,
            !.common.paScAaConfig.reg_data = At(registers, mmPA_SC_AA_CONFIG),
            !.context.hdrPaScBinnerCntl1.data =
                <<SetBits(SetBits(0, 16, 15, settings.binningMaxPrimPerBatch - 1), 0, 16,
                          IF ngg THEN settings.binningMaxAllocCountNggOnChip - 1
                          ELSE settings.binningMaxAllocCountLegacy - 1)>>]

\* LateInit, lines 384-432: the AddShReg calls, in order
VsPs_ShRegs(cmds, loadInfo, chipProps) ==
    LET ps == cmds.sh.ps
        vs == cmds.sh.vs
        accum(g, first) == [i \in 1..4 |-> <<first + i - 1, g.data[i]>>]
    IN  << <<mmSPI_SHADER_PGM_LO_PS,    ps.hdrSpiShaderPgm.data[1]>>,
           <<mmSPI_SHADER_PGM_HI_PS,    ps.hdrSpiShaderPgm.data[2]>>,
           <<mmSPI_SHADER_PGM_RSRC1_PS, ps.hdrSpiShaderPgm.data[3]>>,
           <<mmSPI_SHADER_PGM_RSRC2_PS, ps.hdrSpiShaderPgm.data[4]>>,
           <<mmSPI_SHADER_USER_DATA_PS_0 + ConstBufTblStartReg,
             ps.hdrSpiShaderUserData.data[1]>> >>
        \o (IF chipProps.supportSpp # 0
            THEN << <<mmSPI_SHADER_PGM_CHKSUM_PS, ps.hdrSpiShaderPgmChksum.data[1]>> >>
            ELSE <<>>)
        \o (IF IsGfx10(chipProps.gfxLevel)
            THEN << <<mmSPI_SHADER_REQ_CTRL_PS, ps.hdrShaderReqCtrlPs.data[1]>> >>
            ELSE <<>>)
        \o (IF chipProps.supportSpiPrefPriority
            THEN accum(ps.hdrSpishaderUserAccumPs, mmSPI_SHADER_USER_ACCUM_PS_0)
                 \o (IF ~loadInfo.enableNgg
                     THEN accum(vs.hdrSpishaderUserAccumVs, mmSPI_SHADER_USER_ACCUM_VS_0)
                     ELSE <<>>)
            ELSE <<>>)
        \o (IF ~loadInfo.enableNgg
            THEN << <<mmSPI_SHADER_PGM_LO_VS,    vs.hdrSpiShaderPgm.data[1]>>,
                    <<mmSPI_SHADER_PGM_HI_VS,    vs.hdrSpiShaderPgm.data[2]>>,
                    <<mmSPI_SHADER_PGM_RSRC1_VS, vs.hdrSpiShaderPgm.data[3]>>,
                    <<mmSPI_SHADER_PGM_RSRC2_VS, vs.hdrSpiShaderPgm.data[4]>>,
                    <<mmSPI_SHADER_USER_DATA_VS_0 + ConstBufTblStartReg,
                      vs.hdrSpiShaderUserData.data[1]>> >>
                 \o (IF chipProps.supportSpp # 0
                     THEN << <<mmSPI_SHADER_PGM_CHKSUM_VS,
                               vs.hdrSpiShaderPgmChksum.data[1]>> >>
                     ELSE <<>>)
                 \o (IF IsGfx10(chipProps.gfxLevel)
                     THEN << <<mmSPI_SHADER_REQ_CTRL_VS, vs.hdrShaderReqCtrlVs.data[1]>> >>
                     ELSE <<>>)
            ELSE <<>>)

\* mutant: the stride registers are staged whether stream-out is on or not
StreamOutStrideRegs_Always(cmds) ==
    [i \in 1..MaxStreamOutTargets |->
        <<VgtStrmoutVtxStrideAddr[i], cmds.streamOut.stride[i].vgtStrmoutVtxStride>>]

\* LateInit, lines 456-462: the stride registers, only with stream-out enabled
StreamOutStrideRegs(cmds) ==
    IF VgtStrmoutConfig(cmds) # 0
    THEN [i \in 1..MaxStreamOutTargets |->
            <<VgtStrmoutVtxStrideAddr[i], cmds.streamOut.stride[i].vgtStrmoutVtxStride>>]
    ELSE <<>>

\* LateInit, lines 434-463: the AddCtxReg calls, in order
VsPs_CtxRegs(cmds, loadInfo) ==
    LET ctx == cmds.context
    IN  << <<mmDB_SHADER_CONTROL,         ctx.hdrDbShaderControl.data[1]>>,
           <<mmSPI_BARYC_CNTL,            ctx.hdrSpiBarycCntl.data[1]>>,
           <<mmSPI_PS_INPUT_ADDR,         ctx.hdrSpiPsInput.data[2]>>,
           <<mmSPI_PS_INPUT_ENA,          ctx.hdrSpiPsInput.data[1]>>,
           <<mmSPI_SHADER_COL_FORMAT,     ctx.hdrSpiShaderFormat.data[3]>>,
           <<mmSPI_SHADER_Z_FORMAT,       ctx.hdrSpiShaderFormat.data[2]>>,
           <<mmSPI_SHADER_POS_FORMAT,     ctx.hdrSpiShaderFormat.data[1]>>,
           <<mmPA_CL_VS_OUT_CNTL,         ctx.hdrPaClVsOutCntl.data[1]>>,
           <<mmVGT_PRIMITIVEID_EN,        ctx.hdrVgtPrimitiveIdEn.data[1]>>,
           <<mmPA_SC_SHADER_CONTROL,      ctx.hdrPaScShaderControl.data[1]>>,
           <<mmPA_SC_BINNER_CNTL_1,       ctx.hdrPaScBinnerCntl1.data[1]>>,
           <<mmVGT_STRMOUT_CONFIG,        cmds.streamOut.vgtStrmoutConfig>>,
           <<mmVGT_STRMOUT_BUFFER_CONFIG, cmds.streamOut.vgtStrmoutBufferConfig>> >>
        \o [i \in 1..loadInfo.interpolatorCount |->
               <<mmSPI_PS_INPUT_CNTL_0 + i - 1, ctx.hdrSpiPsInputCntl.data[i]>>]
        \o StreamOutStrideRegs(cmds)

RECURSIVE AddCtxRegs(_, _)
AddCtxRegs(up, regs) ==
    IF regs = <<>> THEN up
    ELSE AddCtxRegs(AddCtxReg(up, regs[1][1], regs[1][2]), Tail(regs))

\* PipelineChunkVsPs::LateInit: the images and the uploader after the call
VsPs_LateInit(cmds, up, md, registers, loadInfo, chipProps, settings) ==
    LET useLoadIndexPath == EnableLoadIndexPath(up)
        c1 == VsPs_BuildPm4Headers(cmds, useLoadIndexPath, loadInfo, chipProps)
        c2 == VsPs_FillImages(c1, up, md, registers, loadInfo, chipProps, settings)
    IN  [commands |-> c2,
         uploader |-> IF useLoadIndexPath
                      THEN AddCtxRegs(AddShRegs(up, VsPs_ShRegs(c2, loadInfo, chipProps)),
                                      VsPs_CtxRegs(c2, loadInfo))
                      ELSE up]

\* ---- the DWORDs of the images.  A DWORD is [op, reg, v]: a packet header
\* (op, first register, register count), its register-offset ordinal, or data.
HeaderDwords(hdr) ==
    <<[op |-> hdr.op, reg |-> hdr.reg, v |-> hdr.count],
      [op |-> "REG_OFFSET", reg |-> hdr.reg, v |-> 0]>>
DataDwords(data) == [i \in 1..Len(data) |-> [op |-> "DATA", reg |-> 0, v |-> data[i]]]
GroupDwords(g) == HeaderDwords(g.hdr) \o DataDwords(g.data)

ShPsDwords(ps) ==
    GroupDwords(ps.hdrSpiShaderPgm) \o GroupDwords(ps.hdrSpiShaderUserData)
    \o GroupDwords(ps.hdrSpiShaderPgmChksum) \o GroupDwords(ps.hdrSpishaderUserAccumPs)
    \o GroupDwords(ps.hdrShaderReqCtrlPs)
ShVsDwords(vs) ==
    GroupDwords(vs.hdrSpiShaderPgm) \o GroupDwords(vs.hdrSpiShaderUserData)
    \o GroupDwords(vs.hdrSpiShaderPgmChksum) \o GroupDwords(vs.hdrSpishaderUserAccumVs)
    \o GroupDwords(vs.hdrShaderReqCtrlVs)
DynamicPsDwords(d) ==
    HeaderDwords(d.hdrPgmRsrc3Ps) \o DataDwords(<<d.spiShaderPgmRsrc3Ps>>)
    \o HeaderDwords(d.hdrPgmRsrc4Ps) \o DataDwords(<<d.spiShaderPgmRsrc4Ps>>)
DynamicVsDwords(d) ==
    HeaderDwords(d.hdrPgmRsrc3Vs) \o DataDwords(<<d.spiShaderPgmRsrc3Vs>>)
    \o HeaderDwords(d.hdrPgmRsrc4Vs) \o DataDwords(<<d.spiShaderPgmRsrc4Vs>>)
ContextDwords(ctx) ==
    GroupDwords(ctx.hdrSpiShaderFormat) \o GroupDwords(ctx.hdrSpiBarycCntl)
    \o GroupDwords(ctx.hdrSpiPsInput) \o GroupDwords(ctx.hdrDbShaderControl)
    \o GroupDwords(ctx.hdrPaScShaderControl) \o GroupDwords(ctx.hdrPaScBinnerCntl1)
    \o GroupDwords(ctx.hdrPaClVsOutCntl) \o GroupDwords(ctx.hdrVgtPrimitiveIdEn)
    \o GroupDwords(ctx.hdrSpiPsInputCntl)
RECURSIVE StrideDwords(_, _)
StrideDwords(stride, i) ==
    IF i > Len(stride) THEN <<>>
    ELSE HeaderDwords(stride[i].header) \o DataDwords(<<stride[i].vgtStrmoutVtxStride>>)
         \o StrideDwords(stride, i + 1)
StreamOutDwords(so) ==
    HeaderDwords(so.headerStrmoutCfg)
    \o DataDwords(<<so.vgtStrmoutConfig, so.vgtStrmoutBufferConfig>>)
    \o StrideDwords(so.stride, 1)
CommonDwords(common) ==
    <<[op |-> common.paScAaConfig.op, reg |-> common.paScAaConfig.reg, v |-> 1],
      [op |-> "REG_OFFSET", reg |-> common.paScAaConfig.reg, v |-> 0],
      [op |-> "DATA", reg |-> 0, v |-> common.paScAaConfig.reg_mask],
      [op |-> "DATA", reg |-> 0, v |-> common.paScAaConfig.reg_data]>>

\* CmdStream::WriteSetOneShReg<ShaderGraphics>
WriteSetOneShReg(regAddr, regData) ==
    HeaderDwords(BuildSetOneShReg(regAddr).hdr) \o DataDwords(<<regData>>)

\* WriteShCommands, lines 481-496 and 503-518: the bind-time patches
PatchRsrc3(rsrc3, stageInfo) ==
    LET r1 == IF stageInfo.wavesPerSh > 0
              THEN SetBits(rsrc3, 16, 6, stageInfo.wavesPerSh) ELSE rsrc3
    IN  IF stageInfo.cuEnableMask # 0
        THEN SetBits(r1, 0, 16, BitAnd(GetBits(r1, 0, 16), stageInfo.cuEnableMask))
        ELSE r1
PatchRsrc4(rsrc4, hdr, stageInfo) ==
    IF stageInfo.cuEnableMask # 0 /\ hdr # ZeroHdr
    THEN SetBits(rsrc4, 0, 16, AdjustCuEnHi(GetBits(rsrc4, 0, 16), stageInfo.cuEnableMask))
    ELSE rsrc4

\* mutant: the vertex-stage performance-data register is written in NGG mode too
VsPs_VsDwords_PerfDataAlways(cmds, perfVs, UseLoadIndexPath, isNgg, vsStageInfo) ==
    IF perfVs.regOffset # UserDataNotMapped
    THEN WriteSetOneShReg(perfVs.regOffset, perfVs.gpuVirtAddr) ELSE <<>>

\* WriteShCommands, lines 498-527: the vertex-stage DWORDs
VsPs_VsDwords(cmds, perfVs, UseLoadIndexPath, isNgg, vsStageInfo) ==
    LET dynamicCmdsVs ==
            [cmds.dynamic.vs EXCEPT
                !.spiShaderPgmRsrc3Vs = PatchRsrc3(@, vsStageInfo),
                !.spiShaderPgmRsrc4Vs = PatchRsrc4(@, cmds.dynamic.vs.hdrPgmRsrc4Vs,
                                                   vsStageInfo)]
    IN  IF isNgg THEN <<>>
        ELSE (IF ~UseLoadIndexPath
              THEN WritePm4Image(cmds.sh.vs.spaceNeeded, ShVsDwords(cmds.sh.vs))
              ELSE <<>>)
             \o WritePm4Image(dynamicCmdsVs.spaceNeeded, DynamicVsDwords(dynamicCmdsVs))
             \o (IF perfVs.regOffset # UserDataNotMapped
                 THEN WriteSetOneShReg(perfVs.regOffset, perfVs.gpuVirtAddr)
                 ELSE <<>>)

\* WriteShCommands, lines 481-496 and 529-543: the pixel-stage DWORDs
VsPs_PsDwords(cmds, perfPs, UseLoadIndexPath, psStageInfo) ==
    LET dynamicCmdsPs ==
            [cmds.dynamic.ps EXCEPT
                !.spiShaderPgmRsrc3Ps = PatchRsrc3(@, psStageInfo),
                !.spiShaderPgmRsrc4Ps = PatchRsrc4(@, cmds.dynamic.ps.hdrPgmRsrc4Ps,
                                                   psStageInfo)]
    IN  (IF ~UseLoadIndexPath
         THEN WritePm4Image(cmds.sh.ps.spaceNeeded, ShPsDwords(cmds.sh.ps))
         ELSE <<>>)
        \o WritePm4Image(dynamicCmdsPs.spaceNeeded, DynamicPsDwords(dynamicCmdsPs))
        \o (IF perfPs.regOffset # UserDataNotMapped
            THEN WriteSetOneShReg(perfPs.regOffset, perfPs.gpuVirtAddr)
            ELSE <<>>)

\* PipelineChunkVsPs::WriteShCommands<UseLoadIndexPath>: the DWORDs written
VsPs_WriteShCommands(cmds, perfVs, perfPs, UseLoadIndexPath, isNgg, vsStageInfo, psStageInfo) ==
    VsPs_VsDwords(cmds, perfVs, UseLoadIndexPath, isNgg, vsStageInfo)
    \o VsPs_PsDwords(cmds, perfPs, UseLoadIndexPath, psStageInfo)

\* PipelineChunkVsPs::WriteContextCommands<UseLoadIndexPath>
VsPs_WriteContextCommands(cmds, UseLoadIndexPath) ==
    (IF ~UseLoadIndexPath
     THEN WritePm4Image(cmds.streamOut.spaceNeeded, StreamOutDwords(cmds.streamOut))
          \o WritePm4Image(cmds.context.spaceNeeded, ContextDwords(cmds.context))
     ELSE <<>>)
    \o WritePm4Image(ContextRegRmwDwords, CommonDwords(cmds.common))

\* ------------------------------------------------------------ ELF inputs
\* sh_addralign: 0 and 1 both mean "no alignment constraint" in ELF
Aligns == {0, 1, 4}
Sizes  == {1, 6}
PlannerFlags == {ShfAlloc + ShfWrite, ShfAlloc + ShfExecInstr}

PlannerSections ==
    [name : {".sec"}, flags : PlannerFlags, align : Aligns, size : Sizes]

SeqsUpTo(S, n) == UNION {[1..k -> S] : k \in 1..n}

\* the binaries handed to the uploader: one .text, optionally a .data and a
\* __llvm_prf_cnts section (with or without SHF_WRITE), in any table order
TextSections ==
    [name : {".text"}, flags : {ShfAlloc + ShfExecInstr}, align : {256},
     size : {6, 70}]
DataSections ==
    [name : {".data"}, flags : {ShfAlloc + ShfWrite}, align : {0, 1, 4},
     size : {6}]
PrfSections ==
    [name : {"__llvm_prf_cnts"}, flags : {ShfAlloc + ShfWrite, ShfAlloc},
     align : {8}, size : {8}]

Orderings(S) ==
    {q \in [1..Cardinality(S) -> S] : \A i, j \in DOMAIN q : i # j => q[i] # q[j]}

UploadElfTables ==
    UNION {Orderings({t} \cup ds \cup ps) :
              t \in TextSections,
              ds \in {{}} \cup {{d} : d \in DataSections},
              ps \in {{}} \cup {{x} : x \in PrfSections}}

\* per-stage perfDataBufferSize of the metadata: Ps and Cs may carry one
PerfSizeInputs ==
    {[s \in HwStages |-> IF s = 5 THEN a ELSE IF s = HwStageCs THEN b ELSE 0] :
        a \in {0, 64}, b \in {0, 64}}

\* the memory manager before any call: what AllocateGpuMem / Map will hand out
NewMemMgr ==
    [gpuVirtAddr |-> 4096, baseOffset |-> 256, cpuAddr |-> 8192,
     requested |-> 0, live |-> {}, mapped |-> {}, unmapCalls |-> 0]

\* ========================================================= planner harness
\* Sections are added in source order; section index = position in the table.
NumMapped   == Len(m_map.m_sections)
RECURSIVE SumLen(_)
SumLen(segs) ==
    IF segs = <<>> THEN 0 ELSE Len(segs[1].m_sections) + SumLen(Tail(segs))
NumGrouped  == SumLen(m_segments)

PlannerInit ==
    /\ elf \in SeqsUpTo(PlannerSections, MaxSections)
    /\ m_map = NewSectionMemoryMap
    /\ m_segments = <<>>
    /\ meta = <<>> /\ dev = <<>> /\ uploader = <<>> /\ mapping = <<>>
    /\ memMgr = <<>> /\ m_perfDataInfo = <<>> /\ alerts = {}
    /\ result = "none" /\ endCalls = 0 /\ pc = "planner"
    /\ pipeline = <<>> /\ m_commands = <<>> /\ m_signature = <<>> /\ cmdBuf = <<>>
    /\ query = <<>>

MapAddSection ==
    /\ NumMapped < Len(elf)
    /\ m_map' = SectionMemoryMap_AddSection(m_map, NumMapped + 1, elf[NumMapped + 1])
    /\ UNCHANGED <<elf, m_segments>>
    /\ UNCHANGED <<uploadVars, hwlVars>>

GpuMappingAddSection ==
    /\ NumGrouped < Len(elf)
    /\ m_segments' = GpuMapping_AddSection(m_segments, NumGrouped + 1, elf[NumGrouped + 1])
    /\ UNCHANGED <<elf, m_map>>
    /\ UNCHANGED <<uploadVars, hwlVars>>

PlannerNext == MapAddSection \/ GpuMappingAddSection

SpecPlanner == PlannerInit /\ [][PlannerNext]_vars

\* ======================================================= uploader harness
\* A caller drives one PipelineUploader through its public interface.
UploaderInit ==
    /\ elf \in UploadElfTables
    /\ meta \in [perfDataBufferSize : PerfSizeInputs]
    /\ dev \in [shaderPrefetchBytes : {0, 256}]
    /\ \E c \in {0, 1}, s \in {0, 2} : uploader = NewUploader(c, s)
    /\ mapping = NewSegment(0)
    /\ memMgr = NewMemMgr
    /\ m_perfDataInfo = NullPerfDataInfo
    /\ alerts = {} /\ result = "none" /\ endCalls = 0 /\ pc = "constructed"
    /\ m_map = NewSectionMemoryMap /\ m_segments = <<>>
    /\ pipeline = <<>> /\ m_commands = <<>> /\ m_signature = <<>> /\ cmdBuf = <<>>
    /\ query = <<>>

UploaderBegin ==
    /\ pc = "constructed"
    /\ \E allocOk \in BOOLEAN, mapOk \in BOOLEAN :
        LET mm == [gpuVirtAddr |-> memMgr.gpuVirtAddr, baseOffset |-> memMgr.baseOffset,
                   cpuAddr |-> memMgr.cpuAddr, allocOk |-> allocOk, mapOk |-> mapOk]
            b  == Begin(uploader, elf, meta.perfDataBufferSize, m_perfDataInfo,
                        dev.shaderPrefetchBytes, mapping, mm)
        IN  /\ (~allocOk => mapOk)
            /\ uploader' = b.uploader
            /\ mapping' = b.mapping
            /\ m_perfDataInfo' = b.perf
            /\ memMgr' = MemAfterBegin(memMgr, b)
            /\ result' = b.result
    /\ pc' = "begun"
    /\ endCalls' = 0
    /\ UNCHANGED <<meta, dev, alerts>>
    /\ UNCHANGED <<plannerVars, hwlVars>>

UploaderAddCtxReg ==
    /\ pc = "begun"
    /\ uploader.m_pCtxRegWritePtr # 0
    /\ Len(uploader.ctxRegs) < uploader.m_ctxRegisterCount
    /\ uploader' = AddCtxReg(uploader, 40960 + Len(uploader.ctxRegs), 1)
    /\ UNCHANGED <<meta, dev, mapping, memMgr, m_perfDataInfo, alerts, result,
                   endCalls, pc>>
    /\ UNCHANGED <<plannerVars, hwlVars>>

UploaderAddShReg ==
    /\ pc = "begun"
    /\ uploader.m_pShRegWritePtr # 0
    /\ Len(uploader.shRegs) < uploader.m_shRegisterCount
    /\ uploader' = AddShReg(uploader, 11264 + Len(uploader.shRegs), 1)
    /\ UNCHANGED <<meta, dev, mapping, memMgr, m_perfDataInfo, alerts, result,
                   endCalls, pc>>
    /\ UNCHANGED <<plannerVars, hwlVars>>

UploaderEnd ==
    /\ pc \in {"constructed", "begun"}
    /\ endCalls < MaxEndCalls
    /\ uploader' = End(uploader)
    /\ memMgr' = MemAfterEnd(memMgr, uploader)
    /\ alerts' = IF EndUnmaps(uploader) THEN alerts \cup EndAsserts(uploader) ELSE alerts
    /\ endCalls' = endCalls + 1
    /\ UNCHANGED <<meta, dev, mapping, m_perfDataInfo, result, pc>>
    /\ UNCHANGED <<plannerVars, hwlVars>>

UploaderDestroy ==
    /\ pc \in {"constructed", "begun"}
    /\ alerts' = alerts \cup DtorAsserts(uploader)
    /\ pc' = "destroyed"
    /\ UNCHANGED <<meta, dev, uploader, mapping, memMgr, m_perfDataInfo, result,
                   endCalls>>
    /\ UNCHANGED <<plannerVars, hwlVars>>

UploaderNext ==
    \/ UploaderBegin
    \/ UploaderAddCtxReg
    \/ UploaderAddShReg
    \/ UploaderEnd
    \/ UploaderDestroy

SpecUploader == UploaderInit /\ [][UploaderNext]_vars

\* ================================================ compute pipeline harness
\* One compute pipeline is created by HwlInit, bound by WriteCommands into the
\* callers' command buffers, and destroyed.
HwlText == [name |-> ".text", flags |-> ShfAlloc + ShfExecInstr, align |-> 256, size |-> 70]
HwlData == [name |-> ".data", flags |-> ShfAlloc + ShfWrite, align |-> 4, size |-> 6]
HwlPrf(flags) == [name |-> "__llvm_prf_cnts", flags |-> flags, align |-> 8, size |-> 8]

HwlElfTables ==
    {<<HwlText>>, <<HwlText, HwlData>>, <<HwlData, HwlText>>,
     <<HwlText, HwlPrf(ShfAlloc + ShfWrite)>>, <<HwlText, HwlPrf(ShfAlloc)>>,
     <<HwlText, HwlData, HwlPrf(ShfAlloc + ShfWrite)>>}

\* the register list unpacked from the metadata
HwlRegisters(threadsX, threadsY, perfDataMapped, hasLimits) ==
    LET base == (mmCOMPUTE_PGM_RSRC1 :> 9) @@
                (mmCOMPUTE_PGM_RSRC2 :> [LDS_SIZE |-> 1, TRAP_PRESENT |-> 0, other |-> 5]) @@
                (mmCOMPUTE_NUM_THREAD_X :> threadsX) @@
                (mmCOMPUTE_NUM_THREAD_Y :> threadsY) @@
                (mmCOMPUTE_NUM_THREAD_Z :> 1) @@
                (mmCOMPUTE_SHADER_CHKSUM :> 77) @@
                (mmCOMPUTE_USER_DATA_0 :> UserDataMapping.GlobalTable) @@
                (mmCOMPUTE_USER_DATA_0 + 1 :> UserDataMapping.PerShaderTable) @@
                (mmCOMPUTE_USER_DATA_0 + 2 :> 0) @@
                (mmCOMPUTE_USER_DATA_0 + 3 :> 1)
        perf == IF perfDataMapped
                THEN (mmCOMPUTE_USER_DATA_0 + 4 :> UserDataMapping.PerShaderPerfData)
                ELSE <<>>
        lim  == IF hasLimits
                THEN (mmCOMPUTE_RESOURCE_LIMITS :> [ZeroLimits EXCEPT !.WAVES_PER_SH = 3])
                ELSE <<>>
    IN  base @@ perf @@ lim

HwlMetadata ==
    {[perfDataBufferSize |-> [s \in HwStages |-> IF s = HwStageCs THEN b ELSE 0],
      registers          |-> HwlRegisters(th[1], th[2], pm, pm),
      csMainEntry        |-> [present |-> TRUE, value |-> 0, size |-> 64],
      csShdrIntrlTblPtr  |-> [present |-> pm, value |-> 64, size |-> 4],
      ldsSize            |-> 512,
      hasSpillThreshold  |-> FALSE, spillThreshold |-> 0,
      hasUserDataLimit   |-> TRUE, userDataLimit |-> 2] :
        b \in {0, 64}, th \in {<<64, 1>>, <<16, 16>>}, pm \in BOOLEAN}

HwlDevices ==
    [shaderPrefetchBytes : {256}, supportSpp : {0, 1},
     enableLoadIndexForObjectBinds : BOOLEAN,
     numShaderArrays : {1}, numCuPerSh : {10}, numSimdPerCu : {4},
     numWavesPerSimd : {10}, gfxLevel : {"GfxIp9"},
     legacyHwsTrapHandlerPresent : {FALSE}, csLockThreshold : {16},
     csSimdDestCntl : {"CsSimdDestCntlDefault"}, enablePrefetch : {TRUE}]

\* what a caller hands to WriteCommands
BindStreams ==
    {[engineType |-> "EngineTypeUniversal", pm4OptimizerEnabled |-> FALSE],
     [engineType |-> "EngineTypeUniversal", pm4OptimizerEnabled |-> TRUE],
     [engineType |-> "EngineTypeCompute", pm4OptimizerEnabled |-> FALSE]}
BindCsInfos ==
    {[maxWavesPerCu |-> 0, maxThreadGroupsPerCu |-> 0, ldsBytesPerTg |-> 0],
     [maxWavesPerCu |-> 4, maxThreadGroupsPerCu |-> 20, ldsBytesPerTg |-> 1000],
     [maxWavesPerCu |-> 0, maxThreadGroupsPerCu |-> 0, ldsBytesPerTg |-> 513]}
BindInputs == [stream : BindStreams, csInfo : BindCsInfos, prefetch : BOOLEAN]

Buffers == {1, 2}
EmptyBuffer == [written |-> FALSE, in |-> <<>>, words |-> <<>>, advance |-> 0]

NewPipeline ==
    [m_gpuMem |-> [mem |-> 0, offset |-> 0], m_gpuMemSize |-> 0,
     m_dataOffset |-> 0, m_dataLength |-> 0,
     m_pPipelineBinary |-> 0, m_pipelineBinaryLen |-> 0,
     m_stageInfo |-> [stageId |-> HwStageCs, codeLength |-> 0,
                      disassemblyLength |-> 0]]

\* the contents of a section: one byte per offset
SectionData(section) ==
    [i \in 1..section.size |-> (Len(section.name) * 31 + i * 7) % 256]

\* the bytes of the pipeline binary: the sections' contents in table order
RECURSIVE BinaryBytes(_)
BinaryBytes(sections) ==
    IF sections = <<>> THEN <<>>
    ELSE SectionData(sections[1]) \o BinaryBytes(Tail(sections))

\* pipeline initialization keeps a private copy of the binary before HwlInit
RetainBinary(p, sections) ==
    [p EXCEPT !.m_pPipelineBinary = 1,
              !.m_pipelineBinaryLen = Len(BinaryBytes(sections))]

\* HwlInit, lines 230-232: the code length of the compute stage
StageInfoAfterInit(stageInfo, up, md) ==
    LET csProgram == GetPipelineSymbolGpuVirtAddr(up, md.csMainEntry)
    IN  IF csProgram.result = "Success"
        THEN [stageInfo EXCEPT !.codeLength = csProgram.size]
        ELSE stageInfo

\* ---- introspection: Pipeline::QueryAllocationInfo .. GetShaderStatsForStage
\* a call's arguments: a = [sel, sizeNull, size, bufNull]; sel is the shader
\* type or hardware stage, size is *pSize on entry.  Its outputs: the Result,
\* *pSize on return, the bytes copied into pBuffer (<<>>: buffer untouched)
QueryOut(res, size, buffer) == [result |-> res, size |-> size, buffer |-> buffer]

NoQuery ==
    [fn |-> "none", args |-> <<>>, result |-> "none", size |-> 0, buffer |-> <<>>]

\* Pipeline::QueryAllocationInfo; sizeNull / bufNull: pNumEntries / pGpuMemList
QueryAllocationInfo(p, a) ==
    IF a.sizeNull THEN QueryOut("ErrorInvalidPointer", a.size, <<>>)
    ELSE QueryOut("Success", 1,
                  IF a.bufNull THEN <<>>
                  ELSE <<[offset |-> p.m_gpuMem.offset,
                          pGpuMemory |-> p.m_gpuMem.mem,
                          size |-> p.m_gpuMemSize]>>)

\* Pipeline::GetPipelineElf
GetPipelineElf(p, bytes, a) ==
    IF a.sizeNull THEN QueryOut("ErrorInvalidPointer", a.size, <<>>)
    ELSE IF p.m_pPipelineBinary # 0 /\ p.m_pipelineBinaryLen # 0
    THEN IF a.bufNull
         THEN QueryOut("Success", p.m_pipelineBinaryLen, <<>>)
         ELSE IF a.size >= p.m_pipelineBinaryLen
         THEN QueryOut("Success", a.size, SubSeq(bytes, 1, p.m_pipelineBinaryLen))
         ELSE QueryOut("ErrorInvalidMemorySize", a.size, <<>>)
    ELSE QueryOut("ErrorUnavailable", a.size, <<>>)

\* ComputePipeline::GetShaderStageInfo: nullptr (FALSE) unless the compute shader
HasShaderStageInfo(shaderType) == shaderType = "Compute"

\* AbiProcessor::LoadFromBuffer on the retained binary
LoadFromBuffer(p) ==
    IF p.m_pPipelineBinary # 0 /\ p.m_pipelineBinaryLen # 0
    THEN "Success" ELSE "ErrorInvalidPipelineElf"

\* AbiProcessor::GetPipelineCode: the .text section's bytes
GetPipelineCode(sections) ==
    SectionData(sections[SectionIndexByName(sections, ".text")])

\* mutant: the whole code section is copied, not the symbol's range
GetShaderCode_WholeSection(p, sections, md, a) ==
    IF a.sizeNull THEN QueryOut("ErrorInvalidPointer", a.size, <<>>)
    ELSE IF HasShaderStageInfo(a.sel)
    THEN IF a.bufNull
         THEN QueryOut("Success", p.m_stageInfo.codeLength, <<>>)
         ELSE IF a.size >= p.m_stageInfo.codeLength
         THEN IF LoadFromBuffer(p) = "Success"
              THEN QueryOut("Success", a.size, GetPipelineCode(sections))
              ELSE QueryOut(LoadFromBuffer(p), a.size, <<>>)
         ELSE QueryOut("ErrorInvalidMemorySize", a.size, <<>>)
    ELSE QueryOut("ErrorUnavailable", a.size, <<>>)

\* Pipeline::GetShaderCode
GetShaderCode(p, sections, md, a) ==
    IF a.sizeNull THEN QueryOut("ErrorInvalidPointer", a.size, <<>>)
    ELSE IF HasShaderStageInfo(a.sel)
    THEN IF a.bufNull
         THEN QueryOut("Success", p.m_stageInfo.codeLength, <<>>)
         ELSE IF a.size >= p.m_stageInfo.codeLength
         THEN IF LoadFromBuffer(p) = "Success"
              THEN LET symbol == md.csMainEntry
                   IN  QueryOut("Success", a.size,
                                SubSeq(GetPipelineCode(sections), symbol.value + 1,
                                       symbol.value + symbol.size))
              ELSE QueryOut(LoadFromBuffer(p), a.size, <<>>)
         ELSE QueryOut("ErrorInvalidMemorySize", a.size, <<>>)
    ELSE QueryOut("ErrorUnavailable", a.size, <<>>)

\* the PAL_ASSERTs of GetShaderCode, lines 338, 351 and 356
GetShaderCodeAsserts(p, sections, md, a) ==
    IF a.sizeNull \/ ~HasShaderStageInfo(a.sel) THEN {}
    ELSE (IF p.m_stageInfo.codeLength = 0 THEN {"GetShaderCode:codeLength"} ELSE {})
         \cup
         (IF ~a.bufNull /\ a.size >= p.m_stageInfo.codeLength
             /\ LoadFromBuffer(p) = "Success"
          THEN (IF md.csMainEntry.size # p.m_stageInfo.codeLength
                THEN {"GetShaderCode:symbolSize"} ELSE {})
               \cup
               (IF md.csMainEntry.size + md.csMainEntry.value
                      > Len(GetPipelineCode(sections))
                THEN {"GetShaderCode:symbolRange"} ELSE {})
          ELSE {})

\* the byte at an offset of the pipeline's GPU allocation, as the CPU reads it
GpuByte(offset) == (offset * 3 + 1) % 256

\* Pipeline::GetPerformanceData; mapOk: whether m_gpuMem.Map succeeds
GetPerformanceData(perfList, a, mapOk) ==
    LET perfDataInfo == perfList[a.sel]
    IN  IF a.sizeNull THEN QueryOut("ErrorInvalidPointer", a.size, <<>>)
        ELSE IF perfDataInfo.sizeInBytes > 0
        THEN IF a.bufNull
             THEN QueryOut("Success", perfDataInfo.sizeInBytes, <<>>)
             ELSE IF a.size >= perfDataInfo.sizeInBytes
             THEN IF mapOk
                  THEN QueryOut("Success", a.size,
                                [i \in 1..perfDataInfo.sizeInBytes |->
                                    GpuByte(perfDataInfo.cpuOffset + i - 1)])
                  ELSE QueryOut("ErrorGpuMemoryMapFailed", a.size, <<>>)
             ELSE QueryOut("ErrorUnavailable", a.size, <<>>)
        ELSE QueryOut("ErrorUnavailable", a.size, <<>>)

\* mutant: a fetch clears the stage's record (read-and-reset)
PerfDataAfterGet_ClearsRecord(perfList, a, out) ==
    IF out.buffer # <<>>
    THEN [perfList EXCEPT ![a.sel] = [sizeInBytes |-> 0, cpuOffset |-> 0,
                                      gpuVirtAddr |-> 0, regOffset |-> 0]]
    ELSE perfList

\* GetPerformanceData reads m_perfDataInfo through a const reference (line 385)
PerfDataAfterGet(perfList, a, out) == perfList

\* Pipeline::GetShaderStatsForStage: the Result and the statistics it fills
GetShaderStatsForStage(p, stageInfo, md) ==
    IF LoadFromBuffer(p) = "Success"
    THEN QueryOut("Success", 0,
                  <<[isaSizeInBytes |-> stageInfo.disassemblyLength,
                     ldsUsageSizeInBytes |-> md.ldsSize]>>)
    ELSE QueryOut(LoadFromBuffer(p), 0, <<>>)

\* BoundGpuMemory::IsBound
IsBound(gpuMem) == gpuMem.mem # 0

HwlInitInit ==
    /\ elf \in HwlElfTables
    /\ meta \in HwlMetadata
    /\ dev \in HwlDevices
    /\ uploader = NewUploader(0, 0)
    /\ mapping = NewSegment(0)
    /\ memMgr = NewMemMgr
    /\ m_perfDataInfo = NullPerfDataInfo
    /\ alerts = {} /\ result = "none" /\ endCalls = 0 /\ pc = "HwlInit"
    /\ m_map = NewSectionMemoryMap /\ m_segments = <<>>
    /\ pipeline = RetainBinary(NewPipeline, elf)
    /\ m_commands = ZeroCommands
    /\ m_signature = NullCsSignature
    /\ cmdBuf = [b \in Buffers |-> EmptyBuffer]
    /\ query = NoQuery

\* HwlInit, lines 199-202: unpack the registers, construct the uploader
HwlInitUnpack ==
    /\ pc = "HwlInit"
    /\ \E r \in {"Success", "ErrorInvalidValue"} : result' = r
    /\ uploader' = NewUploader(0, IF dev.enableLoadIndexForObjectBinds
                                  THEN LoadedShRegCount(dev) ELSE 0)
    /\ pc' = "Upload"
    /\ UNCHANGED <<meta, dev, mapping, memMgr, m_perfDataInfo, alerts, endCalls>>
    /\ UNCHANGED <<plannerVars, hwlVars>>

\* HwlInit, lines 203-216: Pipeline::PerformRelocationsAndUploadToGpuMemory
HwlInitUpload ==
    /\ pc = "Upload"
    /\ IF result # "Success"
       THEN UNCHANGED <<uploader, mapping, m_perfDataInfo, memMgr, result, pipeline>>
       ELSE \E allocOk \in BOOLEAN, mapOk \in BOOLEAN,
               reloc \in {"Success", "ErrorInvalidPipelineElf"} :
            LET mm == [gpuVirtAddr |-> memMgr.gpuVirtAddr,
                       baseOffset |-> memMgr.baseOffset,
                       cpuAddr |-> memMgr.cpuAddr, allocOk |-> allocOk,
                       mapOk |-> mapOk]
                b  == Begin(uploader, elf, meta.perfDataBufferSize, m_perfDataInfo,
                            dev.shaderPrefetchBytes, NewSegment(0), mm)
            IN  /\ (~allocOk => mapOk)
                /\ (b.result # "Success" => reloc = "Success")
                /\ uploader' = b.uploader
                /\ mapping' = b.mapping
                /\ m_perfDataInfo' = b.perf
                /\ memMgr' = MemAfterBegin(memMgr, b)
                /\ pipeline' =
                       IF b.result = "Success"
                       THEN [pipeline EXCEPT
                               !.m_gpuMem = [mem |-> b.uploader.m_pGpuMemory,
                                             offset |-> b.uploader.m_baseOffset],
                               !.m_gpuMemSize = b.uploader.m_gpuMemSize,
                               !.m_dataOffset = b.uploader.m_dataOffset,
                               !.m_dataLength = b.uploader.m_dataLength]
                       ELSE pipeline
                /\ result' = IF b.result = "Success" THEN reloc ELSE b.result
    /\ pc' = IF result' = "Success" THEN "Build" ELSE "Return"
    /\ UNCHANGED <<meta, dev, alerts, endCalls, m_commands, m_signature, cmdBuf,
                   query>>
    /\ UNCHANGED plannerVars

\* HwlInit, lines 219-220: the packet headers of the three images
HwlInitBuild ==
    /\ pc = "Build"
    /\ m_commands' = BuildPm4Headers(m_commands, uploader, dev)
    /\ pc' = "Signature"
    /\ UNCHANGED <<meta, dev, uploader, mapping, memMgr, m_perfDataInfo, alerts,
                   result, endCalls, pipeline, m_signature, cmdBuf, query>>
    /\ UNCHANGED plannerVars

\* HwlInit, line 223: SetupSignatureFromElf
HwlInitSetupSignature ==
    /\ pc = "Signature"
    /\ LET sig == SetupSignatureFromElf(m_signature,
                                        m_perfDataInfo[HwStageCs].regOffset,
                                        meta, meta.registers)
       IN  /\ m_signature' \in SignatureOutcomes(sig)
           /\ m_perfDataInfo' =
                  [m_perfDataInfo EXCEPT ![HwStageCs].regOffset = sig.regOffset]
           /\ alerts' = alerts \cup sig.alerts
    /\ pc' = "Fill"
    /\ UNCHANGED <<meta, dev, uploader, mapping, memMgr, result, endCalls,
                   pipeline, m_commands, cmdBuf, query>>
    /\ UNCHANGED plannerVars

\* HwlInit, lines 225-265: the set image's register values, the code length
HwlInitFillSetImage ==
    /\ pc = "Fill"
    /\ m_commands' = FillSetImage(m_commands, uploader, meta, meta.registers, dev)
    /\ pipeline' = [pipeline EXCEPT
                        !.m_stageInfo = StageInfoAfterInit(@, uploader, meta)]
    /\ pc' = "Stage"
    /\ UNCHANGED <<meta, dev, uploader, mapping, memMgr, m_perfDataInfo, alerts,
                   result, endCalls, m_signature, cmdBuf, query>>
    /\ UNCHANGED plannerVars

\* HwlInit, lines 267-283: stage the registers LOAD_SH_REG_INDEX will load
HwlInitStageShRegs ==
    /\ pc = "Stage"
    /\ uploader' = StageShRegs(uploader, m_commands, dev)
    /\ pc' = "End"
    /\ UNCHANGED <<meta, dev, mapping, memMgr, m_perfDataInfo, alerts, result,
                   endCalls>>
    /\ UNCHANGED <<plannerVars, hwlVars>>

\* HwlInit, line 284: uploader.End()
HwlInitEnd ==
    /\ pc = "End"
    /\ uploader' = End(uploader)
    /\ memMgr' = MemAfterEnd(memMgr, uploader)
    /\ alerts' = IF EndUnmaps(uploader) THEN alerts \cup EndAsserts(uploader) ELSE alerts
    /\ endCalls' = endCalls + 1
    /\ pc' = "Finish"
    /\ UNCHANGED <<meta, dev, mapping, m_perfDataInfo, result>>
    /\ UNCHANGED <<plannerVars, hwlVars>>

\* HwlInit, lines 286-339: the dynamic image's register values, the prefetch
HwlInitFinish ==
    /\ pc = "Finish"
    /\ m_commands' = BuildPipelinePrefetchPm4(
                         FillDynamicImage(m_commands, meta.registers, dev, dev),
                         uploader, dev)
    /\ pc' = "Return"
    /\ UNCHANGED <<meta, dev, uploader, mapping, memMgr, m_perfDataInfo, alerts,
                   result, endCalls, pipeline, m_signature, cmdBuf, query>>
    /\ UNCHANGED plannerVars

\* HwlInit, lines 342-343: return; the uploader goes out of scope
HwlInitReturn ==
    /\ pc = "Return"
    /\ alerts' = alerts \cup DtorAsserts(uploader)
    /\ pc' = IF result = "Success" THEN "Created" ELSE "Failed"
    /\ UNCHANGED <<meta, dev, uploader, mapping, memMgr, m_perfDataInfo, result,
                   endCalls>>
    /\ UNCHANGED <<plannerVars, hwlVars>>

\* a command-recording thread binds the created pipeline into its own buffer
PipelineWriteCommands ==
    /\ pc = "Created"
    /\ \E b \in Buffers, in \in BindInputs :
        LET words == WriteCommands(m_commands, m_perfDataInfo[HwStageCs], dev,
                                   in.stream, in.csInfo, in.prefetch)
        IN  /\ cmdBuf' = [cmdBuf EXCEPT ![b] =
                             [written |-> TRUE, in |-> in, words |-> words,
                              advance |-> Len(words)]]
            /\ m_commands' = CommandsAfterWrite(m_commands, in.csInfo, dev)
    /\ UNCHANGED <<meta, dev, uploader, mapping, memMgr, m_perfDataInfo, alerts,
                   result, endCalls, pc, pipeline, m_signature, query>>
    /\ UNCHANGED plannerVars

\* Pipeline::~Pipeline, after creation succeeded or failed
PipelineDestroy ==
    /\ pc \in {"Created", "Failed"}
    /\ memMgr' = IF IsBound(pipeline.m_gpuMem)
                 THEN [memMgr EXCEPT !.live = @ \ {pipeline.m_gpuMem.mem}]
                 ELSE memMgr
    /\ pipeline' = [pipeline EXCEPT
                        !.m_gpuMem = IF IsBound(@) THEN [mem |-> 0, offset |-> 0]
                                     ELSE @,
                        !.m_pPipelineBinary = 0]
    /\ pc' = "Destroyed"
    /\ UNCHANGED <<meta, dev, uploader, mapping, m_perfDataInfo, alerts, result,
                   endCalls, m_commands, m_signature, cmdBuf, query>>
    /\ UNCHANGED plannerVars

HwlInitNext ==
    \/ HwlInitUnpack
    \/ HwlInitUpload
    \/ HwlInitBuild
    \/ HwlInitSetupSignature
    \/ HwlInitFillSetImage
    \/ HwlInitStageShRegs
    \/ HwlInitEnd
    \/ HwlInitFinish
    \/ HwlInitReturn
    \/ PipelineWriteCommands
    \/ PipelineDestroy

SpecHwlInit == HwlInitInit /\ [][HwlInitNext]_vars

\* ==================================================== introspection harness
\* Tooling queries a created compute pipeline.
QuerySizes == {8, 64, 70, 84}

QueryArgs(sels) ==
    {a \in [sel : sels, sizeNull : BOOLEAN, size : QuerySizes, bufNull : BOOLEAN] :
        a.sizeNull => (a.bufNull /\ a.size = 8)}

ShaderTypes == {"Compute", "Vertex"}
PerfStages  == {HwStageCs, 5}

Answer(fn, a, out) ==
    [fn |-> fn, args |-> a, result |-> out.result, size |-> out.size,
     buffer |-> out.buffer]

\* ComputePipeline::GetShaderStats
GetShaderStats(p, md, shaderType) ==
    IF shaderType = "Compute"
    THEN GetShaderStatsForStage(p, p.m_stageInfo, md)
    ELSE QueryOut("ErrorUnavailable", 0, <<>>)

CallQueryAllocationInfo ==
    /\ pc = "Created"
    /\ \E a \in QueryArgs({"none"}) :
        query' = Answer("QueryAllocationInfo", a, QueryAllocationInfo(pipeline, a))
    /\ UNCHANGED <<plannerVars, uploadVars, pipeline, m_commands, m_signature, cmdBuf>>

CallGetPipelineElf ==
    /\ pc = "Created"
    /\ \E a \in QueryArgs({"none"}) :
        query' = Answer("GetPipelineElf", a,
                        GetPipelineElf(pipeline, BinaryBytes(elf), a))
    /\ UNCHANGED <<plannerVars, uploadVars, pipeline, m_commands, m_signature, cmdBuf>>

CallGetShaderCode ==
    /\ pc = "Created"
    /\ \E a \in QueryArgs(ShaderTypes) :
        /\ query' = Answer("GetShaderCode", a, GetShaderCode(pipeline, elf, meta, a))
        /\ alerts' = alerts \cup GetShaderCodeAsserts(pipeline, elf, meta, a)
    /\ UNCHANGED <<meta, dev, uploader, mapping, memMgr, m_perfDataInfo, result,
                   endCalls, pc>>
    /\ UNCHANGED <<plannerVars, pipeline, m_commands, m_signature, cmdBuf>>

CallGetPerformanceData ==
    /\ pc = "Created"
    /\ \E a \in QueryArgs(PerfStages), mapOk \in BOOLEAN :
        LET out == GetPerformanceData(m_perfDataInfo, a, mapOk)
        IN  /\ (~mapOk => out.result = "ErrorGpuMemoryMapFailed")
            /\ query' = Answer("GetPerformanceData", a, out)
            /\ m_perfDataInfo' = PerfDataAfterGet(m_perfDataInfo, a, out)
    /\ UNCHANGED <<meta, dev, uploader, mapping, memMgr, alerts, result,
                   endCalls, pc>>
    /\ UNCHANGED <<plannerVars, pipeline, m_commands, m_signature, cmdBuf>>

CallGetShaderStats ==
    /\ pc = "Created"
    /\ \E s \in ShaderTypes :
        query' = Answer("GetShaderStats",
                        [sel |-> s, sizeNull |-> FALSE, size |-> 8, bufNull |-> FALSE],
                        GetShaderStats(pipeline, meta, s))
    /\ UNCHANGED <<plannerVars, uploadVars, pipeline, m_commands, m_signature, cmdBuf>>

IntrospectNext ==
    \/ HwlInitUnpack
    \/ HwlInitUpload
    \/ HwlInitBuild
    \/ HwlInitSetupSignature
    \/ HwlInitFillSetImage
    \/ HwlInitStageShRegs
    \/ HwlInitEnd
    \/ HwlInitFinish
    \/ HwlInitReturn
    \/ CallQueryAllocationInfo
    \/ CallGetPipelineElf
    \/ CallGetShaderCode
    \/ CallGetPerformanceData
    \/ CallGetShaderStats
    \/ PipelineDestroy

SpecIntrospect == HwlInitInit /\ [][IntrospectNext]_vars

\* ======================================================= signature harness
\* SetupSignatureFromElf applied to the register lists a binary can carry:
\* up to MaxSigEntries entries on COMPUTE_USER_DATA_0..5 (two registers below
\* the first user-SGPR register, four user-SGPR slots).
SigRegs == mmCOMPUTE_USER_DATA_0 .. (mmCOMPUTE_USER_DATA_0 + 5)
SigValues ==
    {0, 1, 2, UserDataMapping.SpillTable, UserDataMapping.Workgroup,
     UserDataMapping.PerShaderPerfData, UserDataMapping.BaseVertex,
     MaxUserDataEntries}

SigRegisterLists ==
    UNION {[S -> SigValues] :
              S \in {T \in SUBSET SigRegs : Cardinality(T) <= MaxSigEntries}}

SignatureInit ==
    /\ meta \in [registers : SigRegisterLists,
                 hasSpillThreshold : {FALSE}, spillThreshold : {0},
                 hasUserDataLimit : {TRUE}, userDataLimit : {3}]
    /\ m_signature = NullCsSignature
    /\ m_perfDataInfo = NullPerfDataInfo
    /\ alerts = {} /\ result = "none" /\ endCalls = 0 /\ pc = "constructed"
    /\ elf = <<>> /\ m_map = NewSectionMemoryMap /\ m_segments = <<>>
    /\ dev = <<>> /\ uploader = <<>> /\ mapping = <<>> /\ memMgr = <<>>
    /\ pipeline = <<>> /\ m_commands = <<>> /\ cmdBuf = <<>> /\ query = <<>>

\* ComputePipeline::SetupSignatureFromElf, the whole call
SignatureSetup ==
    /\ pc = "constructed"
    /\ LET st == SetupSignatureFromElf(m_signature,
                                       m_perfDataInfo[HwStageCs].regOffset,
                                       meta, meta.registers)
       IN  /\ m_signature' \in SignatureOutcomes(st)
           /\ m_perfDataInfo' =
                  [m_perfDataInfo EXCEPT ![HwStageCs].regOffset = st.regOffset]
           /\ alerts' = alerts \cup st.alerts
    /\ pc' = "extracted"
    /\ UNCHANGED <<elf, m_map, m_segments, meta, dev, uploader, mapping, memMgr,
                   result, endCalls, pipeline, m_commands, cmdBuf, query>>

SignatureNext == SignatureSetup

SpecSignature == SignatureInit /\ [][SignatureNext]_vars

\* ================================================= dynamic image harness
\* Compute pipelines are created on the devices and with the thread-group
\* dimensions that decide the dynamic image's COMPUTE_RESOURCE_LIMITS.
DynDevices ==
    [shaderPrefetchBytes : {256}, supportSpp : {0},
     enableLoadIndexForObjectBinds : {FALSE},
     numShaderArrays : {1, 2, 4}, numCuPerSh : {7, 8, 9, 10}, numSimdPerCu : {4},
     numWavesPerSimd : {10}, gfxLevel : {"GfxIp9"},
     legacyHwsTrapHandlerPresent : BOOLEAN, csLockThreshold : {0, 16},
     csSimdDestCntl : {"CsSimdDestCntlDefault", "CsSimdDestCntlForce1",
                       "CsSimdDestCntlForce0"},
     enablePrefetch : {TRUE}]

DynMetadata ==
    {[perfDataBufferSize |-> [s \in HwStages |-> 0],
      registers          |-> HwlRegisters(tx, ty, FALSE, lim),
      csMainEntry        |-> [present |-> me, value |-> 0,
                              size |-> IF me THEN 64 ELSE 0],
      csShdrIntrlTblPtr  |-> [present |-> FALSE, value |-> 0, size |-> 0],
      ldsSize            |-> 512,
      hasSpillThreshold  |-> FALSE, spillThreshold |-> 0,
      hasUserDataLimit   |-> TRUE, userDataLimit |-> 2] :
        tx \in {1, 64, 65}, ty \in {1, 4}, lim \in BOOLEAN, me \in BOOLEAN}

DynInit ==
    /\ elf = <<HwlText>>
    /\ meta \in DynMetadata
    /\ dev \in DynDevices
    /\ uploader = NewUploader(0, 0)
    /\ mapping = NewSegment(0)
    /\ memMgr = NewMemMgr
    /\ m_perfDataInfo = NullPerfDataInfo
    /\ alerts = {} /\ result = "none" /\ endCalls = 0 /\ pc = "HwlInit"
    /\ m_map = NewSectionMemoryMap /\ m_segments = <<>>
    /\ pipeline = RetainBinary(NewPipeline, elf)
    /\ m_commands = ZeroCommands
    /\ m_signature = NullCsSignature
    /\ cmdBuf = [b \in Buffers |-> EmptyBuffer]
    /\ query = NoQuery

DynNext ==
    \/ HwlInitUnpack
    \/ HwlInitUpload
    \/ HwlInitBuild
    \/ HwlInitSetupSignature
    \/ HwlInitFillSetImage
    \/ HwlInitStageShRegs
    \/ HwlInitEnd
    \/ HwlInitFinish
    \/ HwlInitReturn
    \/ PipelineDestroy

SpecDynamicImage == DynInit /\ [][DynNext]_vars

\* ======================================================= VS/PS chunk harness
\* A graphics pipeline's vertex+pixel chunk is initialised around the upload
\* of the pipeline (EarlyInit, the uploader's Begin, LateInit, End) and then
\* bound into command buffers.  pipeline holds the GraphicsPipelineLoadInfo.
VsPsText == [name |-> ".text", flags |-> ShfAlloc + ShfExecInstr, align |-> 256,
             size |-> 512]

\* the registers every graphics binary carries (RegisterVector::At)
VsPsBaseRegs ==
    {mmSPI_SHADER_PGM_RSRC1_PS, mmSPI_SHADER_PGM_RSRC2_PS, mmSPI_SHADER_PGM_RSRC1_VS,
     mmSPI_SHADER_PGM_RSRC2_VS, mmDB_SHADER_CONTROL, mmSPI_BARYC_CNTL,
     mmSPI_PS_INPUT_ADDR, mmSPI_PS_INPUT_ENA, mmSPI_SHADER_COL_FORMAT,
     mmSPI_SHADER_Z_FORMAT, mmPA_CL_VS_OUT_CNTL, mmSPI_SHADER_POS_FORMAT,
     mmVGT_PRIMITIVEID_EN, mmPA_SC_SHADER_CONTROL, mmPA_SC_AA_CONFIG,
     mmVGT_STRMOUT_BUFFER_CONFIG} \cup {a : a \in {VgtStrmoutVtxStrideAddr[i] :
                                                    i \in 1..MaxStreamOutTargets}}

\* the interpolator entries of a binary: a leading run, or a run with a hole
InterpolatorSets ==
    {{mmSPI_PS_INPUT_CNTL_0 + i : i \in 0..(n - 1)} : n \in {0, 2, MaxPsInputSemantics}}
    \cup {{mmSPI_PS_INPUT_CNTL_0, mmSPI_PS_INPUT_CNTL_0 + 2}}

\* strm: <<is there a VGT_STRMOUT_CONFIG entry, the register's value>>
VsPsRegisters(strm, interp) ==
    LET dom == VsPsBaseRegs \cup interp
                   \cup (IF strm[1] THEN {mmVGT_STRMOUT_CONFIG} ELSE {})
    IN  [r \in dom |-> IF r = mmVGT_STRMOUT_CONFIG THEN strm[2] ELSE (r % 7) + 1]

VsPsMetadata ==
    {[perfDataBufferSize |-> [s \in HwStages |-> 0],
      registers          |-> VsPsRegisters(strm, interp),
      enableNgg          |-> ngg,
      psMainEntry        |-> [present |-> TRUE, value |-> 0, size |-> 64],
      vsMainEntry        |-> [present |-> TRUE, value |-> 256, size |-> 64],
      psShdrIntrlTblPtr  |-> [present |-> FALSE, value |-> 0, size |-> 0],
      vsShdrIntrlTblPtr  |-> [present |-> FALSE, value |-> 0, size |-> 0],
      clipDistMask       |-> 0,
      perfRegVs          |-> pv,
      perfRegPs          |-> pp] :
        strm \in {<<FALSE, 0>>, <<TRUE, 0>>, <<TRUE, 1>>}, interp \in InterpolatorSets, ngg \in BOOLEAN,
        pv \in {UserDataNotMapped, mmSPI_SHADER_USER_DATA_VS_0 + 5},
        pp \in {UserDataNotMapped, mmSPI_SHADER_USER_DATA_PS_0 + 5}}

\* the hardware generations and capabilities the chunk distinguishes
VsPsChipProps ==
    [supportSpp : {0, 1}, gfxLevel : {"GfxIp9", "GfxIp10_1"},
     supportSpiPrefPriority : BOOLEAN, supportCustomWaveBreakSize : {FALSE}]

VsPsSettings ==
    [enableLoadIndexForObjectBinds : BOOLEAN, shaderPrefetchBytes : {256},
     numPsWavesSoftGroupedPerCu : {2}, numVsWavesSoftGroupedPerCu : {0},
     psCuEnLimitMask : {65535}, vsCuEnLimitMask : {65535},
     forceWaveBreakSize : {Gfx10ForceWaveBreakSizeClient},
     binningMaxPrimPerBatch : {1024}, binningMaxAllocCountNggOnChip : {128},
     binningMaxAllocCountLegacy : {64}]

\* dev is the device: its chip properties and its settings in one record
Merge(f, g) == [k \in DOMAIN f \cup DOMAIN g |-> IF k \in DOMAIN f THEN f[k] ELSE g[k]]
VsPsDevices == {Merge(c, s) : c \in VsPsChipProps, s \in VsPsSettings}

DynamicStageInfos == {[wavesPerSh |-> 0, cuEnableMask |-> 0],
                      [wavesPerSh |-> 4, cuEnableMask |-> 3]}

NewLoadInfo(enableNgg) ==
    [enableNgg |-> enableNgg, interpolatorCount |-> 0,
     loadedShRegCount |-> 0, loadedCtxRegCount |-> 0]

NoWrite == [fn |-> "none", in |-> <<>>, words |-> <<>>]

VsPsInit ==
    /\ elf = <<VsPsText>>
    /\ meta \in VsPsMetadata
    /\ dev \in VsPsDevices
    /\ uploader = NewUploader(0, 0)
    /\ mapping = NewSegment(0)
    /\ memMgr = NewMemMgr
    /\ m_perfDataInfo = [NullPerfDataInfo EXCEPT
                            ![HwStageVs].regOffset = meta.perfRegVs,
                            ![HwStagePs].regOffset = meta.perfRegPs]
    /\ alerts = {} /\ result = "none" /\ endCalls = 0 /\ pc = "EarlyInit"
    /\ m_map = NewSectionMemoryMap /\ m_segments = <<>>
    /\ pipeline = [loadInfo |-> NewLoadInfo(meta.enableNgg)]
    /\ m_commands = ZeroVsPsCommands
    /\ m_signature = <<>>
    /\ cmdBuf = NoWrite
    /\ query = NoQuery

\* PipelineChunkVsPs::EarlyInit; the uploader is then constructed with the
\* register counts of the load info
ChunkEarlyInit ==
    /\ pc = "EarlyInit"
    /\ LET e == VsPs_EarlyInit(m_commands, meta.registers, pipeline.loadInfo, dev, dev)
       IN  /\ m_commands' = e.commands
           /\ pipeline' = [pipeline EXCEPT !.loadInfo = e.info]
           /\ uploader' = NewUploader(e.info.loadedCtxRegCount, e.info.loadedShRegCount)
    /\ pc' = "Begin"
    /\ UNCHANGED <<meta, dev, mapping, memMgr, m_perfDataInfo, alerts, result,
                   endCalls, m_signature, cmdBuf, query>>
    /\ UNCHANGED plannerVars

\* PipelineUploader::Begin for the graphics pipeline
ChunkBegin ==
    /\ pc = "Begin"
    /\ \E allocOk \in BOOLEAN, mapOk \in BOOLEAN :
         LET mm == [gpuVirtAddr |-> memMgr.gpuVirtAddr,
                    baseOffset |-> memMgr.baseOffset,
                    cpuAddr |-> memMgr.cpuAddr, allocOk |-> allocOk,
                    mapOk |-> mapOk]
             b  == Begin(uploader, elf, meta.perfDataBufferSize, m_perfDataInfo,
                         dev.shaderPrefetchBytes, NewSegment(0), mm)
         IN  /\ (~allocOk => mapOk)
             /\ uploader' = b.uploader
             /\ mapping' = b.mapping
             /\ m_perfDataInfo' = b.perf
             /\ memMgr' = MemAfterBegin(memMgr, b)
             /\ result' = b.result
    /\ pc' = IF result' = "Success" THEN "LateInit" ELSE "Failed"
    /\ UNCHANGED <<meta, dev, alerts, endCalls, pipeline, m_commands, m_signature,
                   cmdBuf, query>>
    /\ UNCHANGED plannerVars

\* PipelineChunkVsPs::LateInit
ChunkLateInit ==
    /\ pc = "LateInit"
    /\ LET l == VsPs_LateInit(m_commands, uploader, meta, meta.registers,
                              pipeline.loadInfo, dev, dev)
       IN  /\ m_commands' = l.commands
           /\ uploader' = l.uploader
    /\ pc' = "End"
    /\ UNCHANGED <<meta, dev, mapping, memMgr, m_perfDataInfo, alerts, result,
                   endCalls, pipeline, m_signature, cmdBuf, query>>
    /\ UNCHANGED plannerVars

\* PipelineUploader::End for the graphics pipeline
ChunkEnd ==
    /\ pc = "End"
    /\ uploader' = End(uploader)
    /\ memMgr' = MemAfterEnd(memMgr, uploader)
    /\ alerts' = IF EndUnmaps(uploader) THEN alerts \cup EndAsserts(uploader) ELSE alerts
    /\ endCalls' = endCalls + 1
    /\ pc' = "Created"
    /\ UNCHANGED <<meta, dev, mapping, m_perfDataInfo, result>>
    /\ UNCHANGED <<plannerVars, hwlVars>>

\* WriteShCommands<UseLoadIndexPath>: the template argument and the stage
\* infos are the caller's
ChunkWriteShCommands ==
    /\ pc = "Created"
    /\ \E path \in BOOLEAN, vsInfo \in DynamicStageInfos, psInfo \in DynamicStageInfos :
         cmdBuf' = [fn |-> "WriteShCommands",
                    in |-> [UseLoadIndexPath |-> path,
                            isNgg |-> pipeline.loadInfo.enableNgg,
                            vsStageInfo |-> vsInfo, psStageInfo |-> psInfo],
                    words |-> VsPs_WriteShCommands(
                                  m_commands, m_perfDataInfo[HwStageVs],
                                  m_perfDataInfo[HwStagePs], path,
                                  pipeline.loadInfo.enableNgg, vsInfo, psInfo)]
    /\ UNCHANGED <<meta, dev, uploader, mapping, memMgr, m_perfDataInfo, alerts,
                   result, endCalls, pc, pipeline, m_commands, m_signature, query>>
    /\ UNCHANGED plannerVars

\* WriteContextCommands<UseLoadIndexPath>
ChunkWriteContextCommands ==
    /\ pc = "Created"
    /\ \E path \in BOOLEAN :
         cmdBuf' = [fn |-> "WriteContextCommands",
                    in |-> [UseLoadIndexPath |-> path,
                            isNgg |-> pipeline.loadInfo.enableNgg,
                            vsStageInfo |-> <<>>, psStageInfo |-> <<>>],
                    words |-> VsPs_WriteContextCommands(m_commands, path)]
    /\ UNCHANGED <<meta, dev, uploader, mapping, memMgr, m_perfDataInfo, alerts,
                   result, endCalls, pc, pipeline, m_commands, m_signature, query>>
    /\ UNCHANGED plannerVars

VsPsNext ==
    \/ ChunkEarlyInit
    \/ ChunkBegin
    \/ ChunkLateInit
    \/ ChunkEnd
    \/ ChunkWriteShCommands
    \/ ChunkWriteContextCommands

SpecVsPs == VsPsInit /\ [][VsPsNext]_vars

\* ----------------------------------------------------------------- C1
MultipleOf(x, a) == \E k \in 0..x : x = k * a

\* the placed sections, in the order they were added, against the ELF table
LayoutOk(sections) ==
    \A i \in 1..Len(sections) :
        /\ MultipleOf(sections[i].offset, elf[sections[i].id].align)
        /\ i > 1 => sections[i].offset >=
                       sections[i-1].offset + elf[sections[i-1].id].size

FlagsSeen == {elf[id].flags : id \in 1..NumGrouped}

\* C2: after any sequence of PipelineGpuMapping::AddSection calls every
\* section sits in the one segment that carries its flags value, no two
\* segments carry the same flags value, and GetSegmentCount() is the number
\* of distinct flags values added so far.
C2_SegmentGroupingStable ==
    /\ \A s, t \in 1..Len(m_segments) :
           s # t => m_segments[s].m_flags # m_segments[t].m_flags
    /\ \A s \in 1..Len(m_segments) : \A k \in 1..Len(m_segments[s].m_sections) :
           elf[m_segments[s].m_sections[k].id].flags = m_segments[s].m_flags
    /\ \A id \in 1..NumGrouped :
           LET pos == GetSectionPosition(m_segments, id, elf[id].flags)
           IN  /\ pos.result = "Success"
               /\ m_segments[pos.segmentIndex].m_flags = elf[id].flags
    /\ GetSegmentCount(m_segments) = Cardinality(FlagsSeen)

\* three sections, two of them with the same flags, the third in between
C2_Witness ==
    /\ NumGrouped = 3
    /\ elf[1].flags = elf[3].flags
    /\ elf[1].flags # elf[2].flags
    /\ GetSegmentCount(m_segments) = 2

\* ------------------------------------------------------------- C3, C4
\* the smallest multiple of a that is >= x
RoundUp(x, a) == CHOOSE m \in x..(x + a - 1) : m % a = 0

CodeLength == elf[SectionIndexByName(elf, ".text")].size

RECURSIVE SumPerf(_, _)
SumPerf(f, s) == IF s >= HwStageCount THEN 0 ELSE f[s] + SumPerf(f, s + 1)

TotalRegisters == uploader.m_ctxRegisterCount + uploader.m_shRegisterCount
MinSafe == RoundUp(CodeLength, ShaderICacheLineSize) + dev.shaderPrefetchBytes
BeginCalled == result # "none"

\* C3: whatever the layout size, register counts and performance-buffer
\* sizes, the size Begin asks the memory manager for is at least
\* round_up(codeLength, cache line size) + the shader prefetch distance.
C3_RequestCoversPrefetch ==
    BeginCalled => memMgr.requested >= MinSafe

\* no registers, no performance data: the request is the lower bound itself
C3_Witness ==
    /\ result = "Success"
    /\ TotalRegisters = 0
    /\ SumPerf(meta.perfDataBufferSize, 0) = 0
    /\ mapping.m_size < MinSafe
    /\ memMgr.requested = MinSafe

\* C4 as stated: the request is max(round_up(layoutSize, 4) + 8 * registers
\* + sum of performance-buffer sizes, round_up(codeLength, cache line) +
\* prefetch distance) for every input, zero register counts included.
C4_RequestIsRoundedSum ==
    BeginCalled =>
        memMgr.requested =
            Max(RoundUp(mapping.m_size, 4) + 8 * TotalRegisters
                    + SumPerf(meta.perfDataBufferSize, 0),
                MinSafe)

\* C4 amended: the layout size is rounded up to 4 bytes only when at least
\* one register is reserved; with both register counts zero it enters the
\* sum unrounded.
C4_RequestIsSumRoundedForRegisters ==
    BeginCalled =>
        memMgr.requested =
            Max((IF TotalRegisters > 0 THEN RoundUp(mapping.m_size, 4)
                 ELSE mapping.m_size)
                    + 8 * TotalRegisters + SumPerf(meta.perfDataBufferSize, 0),
                MinSafe)

\* no registers, a payload that is no multiple of 4, and the sum above the
\* lower bound
C4_Witness ==
    /\ BeginCalled
    /\ TotalRegisters = 0
    /\ mapping.m_size % 4 # 0
    /\ memMgr.requested = mapping.m_size + SumPerf(meta.perfDataBufferSize, 0)
    /\ memMgr.requested > MinSafe

\* ----------------------------------------------------------------- C7
EndCalled == endCalls' = endCalls + 1

EndReleases ==
    /\ memMgr'.unmapCalls = memMgr.unmapCalls + 1
    /\ memMgr'.mapped = {}
    /\ uploader'.m_pMappedPtr = 0
    /\ uploader'.m_pCtxRegWritePtr = 0
    /\ uploader'.m_pShRegWritePtr = 0

\* C7 as stated: the first End() after a successful Begin unmaps exactly
\* once and clears the mapped pointer and both write cursors; every later
\* End(), and End() without a successful Begin, unmaps nothing and changes
\* no state.
C7_EndIdempotent ==
    [][EndCalled =>
          IF result = "Success" /\ endCalls = 0
          THEN EndReleases
          ELSE UNCHANGED <<uploader, memMgr>>]_vars

\* C7 amended: the first End() after a Begin that mapped the allocation (a
\* successful Begin, or one that failed on a section-offset lookup after
\* Map) unmaps exactly once and clears the mapped pointer and both write
\* cursors; every later End(), and End() before Begin or after a Begin that
\* failed at allocation or at Map, unmaps nothing and changes no state.
C7_EndIdempotentOnceMapped ==
    [][EndCalled =>
          IF result \in {"Success", "ErrorUnavailable"} /\ endCalls = 0
          THEN EndReleases
          ELSE UNCHANGED <<uploader, memMgr>>]_vars

\* two End() calls after a successful Begin, one Unmap
C7_Witness ==
    /\ result = "Success"
    /\ endCalls = 2
    /\ memMgr.unmapCalls = 1
    /\ uploader.m_pMappedPtr = 0

\* ----------------------------------------------------------------- C5
\* C5: whenever pipeline creation fails after the memory manager's allocation
\* succeeded (Map failure, a lookup miss inside Begin, a relocation failure),
\* destroying the pipeline frees the allocation: once the pipeline is
\* destroyed no allocation made by Begin is still live.
C5_DestroyFreesAllocation ==
    pc = "Destroyed" => memMgr.live = {}

\* ----------------------------------------------------------------- C6
\* C6: on every path through HwlInit End() is called and the allocation is
\* unmapped before the uploader is destroyed: the destructor's assertion
\* m_pMappedPtr == nullptr never fires and no mapping outlives HwlInit.
C6_MappingReleasedBeforeDestructor ==
    /\ "~PipelineUploader:mapped" \notin alerts
    /\ pc \in {"Created", "Failed", "Destroyed"} => memMgr.mapped = {}

\* ----------------------------------------------------------------- C8
StagingDone == pc \in {"End", "Finish"}

\* C8: for every capability combination (load-index on or off, supportSpp 0
\* or 1) the AddShReg calls of HwlInit never exceed the SH register count
\* reserved at uploader construction, equal it when End() is reached, and
\* End()'s assertion on the SH write pointer does not fire.
C8_StagedShRegsMatchReserved ==
    /\ Len(uploader.shRegs) <= uploader.m_shRegisterCount
    /\ StagingDone => Len(uploader.shRegs) = uploader.m_shRegisterCount
    /\ "End:shRegCount" \notin alerts

C8_Witness ==
    /\ pc = "Finish" /\ endCalls = 1
    /\ dev.enableLoadIndexForObjectBinds /\ dev.supportSpp = 1
    /\ Len(uploader.shRegs) = BaseLoadedShRegCount + 1
    /\ memMgr.unmapCalls = 1

\* ----------------------------------------------------------------- C9
\* C9 as stated: once the uploader's End() has been called during creation,
\* no pre-built command image of the pipeline is written again.
C9_ImagesImmutableAfterEnd ==
    [][endCalls >= 1 => m_commands' = m_commands]_vars

\* C9 amended: once HwlInit has returned successfully, the pre-built images,
\* the signature and the performance-data records are never written again,
\* and a WriteCommands call writes no buffer but its own.
C9_ImagesImmutableOnceCreated ==
    [][pc = "Created" =>
          /\ UNCHANGED <<m_commands, m_signature, m_perfDataInfo>>
          /\ \A b \in Buffers :
                cmdBuf'[b] # cmdBuf[b] =>
                    \A c \in Buffers \ {b} : cmdBuf'[c] = cmdBuf[c]]_vars

C9_Witness ==
    /\ pc = "Created"
    /\ \A b \in Buffers : cmdBuf[b].written
    /\ cmdBuf[1].in # cmdBuf[2].in
    /\ m_commands.prefetch.spaceNeeded > 0
    /\ m_commands.dynamic.computeResourceLimits.LOCK_THRESHOLD > 0

\* ---------------------------------------------------------------- C10
\* C10: two WriteCommands calls on one pipeline with identical stream state,
\* identical DynamicComputeShaderInfo and identical prefetch flag, into two
\* distinct buffers, write the same words and advance the cursor equally, and
\* a call leaves the dynamic template stored in the pipeline as it was.
C10_WriteCommandsRepeatable ==
    [][cmdBuf' # cmdBuf =>
          /\ m_commands'.dynamic = m_commands.dynamic
          /\ \A b, c \in Buffers :
                (cmdBuf'[b].written /\ cmdBuf'[c].written
                    /\ cmdBuf'[b].in = cmdBuf'[c].in)
                => /\ cmdBuf'[b].words = cmdBuf'[c].words
                   /\ cmdBuf'[b].advance = cmdBuf'[c].advance]_vars

C10_Witness ==
    /\ cmdBuf[1].written /\ cmdBuf[2].written
    /\ cmdBuf[1].in = cmdBuf[2].in
    /\ cmdBuf[1].in.csInfo.maxWavesPerCu > 0
    /\ cmdBuf[1].in.csInfo.ldsBytesPerTg > 0
    /\ cmdBuf[1].advance > 0

\* ---------------------------------------------------------------- C11
\* the header that opens the dynamic image
IsDynamicHdr(w) == w.op = "SET_SH_REG" /\ w.reg = mmCOMPUTE_PGM_RSRC2

\* the bind is entitled to the load-index image
LoadIndexExpected(in) ==
    /\ dev.enableLoadIndexForObjectBinds
    /\ ~in.stream.pm4OptimizerEnabled
    /\ in.stream.engineType # "EngineTypeCompute"

\* C11: every WriteCommands call writes exactly one static image, directly
\* followed by the dynamic image: the load-index image iff a load-index
\* packet was built at creation, the PM4 optimizer is off and the engine is
\* not compute; the set image otherwise.
C11_OneStaticImagePerBind ==
    \A b \in Buffers :
        cmdBuf[b].written =>
            LET w == cmdBuf[b].words
            IN  IF LoadIndexExpected(cmdBuf[b].in)
                THEN /\ w[1].op = "LOAD_SH_REG_INDEX"
                     /\ w[1].count = LoadedShRegCount(dev)
                     /\ IsDynamicHdr(w[LoadIndexDwords + 1])
                ELSE /\ w[1].op = "SET_SH_REG"
                     /\ w[1].reg = mmCOMPUTE_PGM_LO
                     /\ IsDynamicHdr(w[m_commands.set.spaceNeeded + 1])

C11_Witness ==
    /\ cmdBuf[1].written /\ cmdBuf[2].written
    /\ dev.enableLoadIndexForObjectBinds
    /\ LoadIndexExpected(cmdBuf[1].in)
    /\ cmdBuf[1].words[1].op = "LOAD_SH_REG_INDEX"
    /\ cmdBuf[2].in.stream.pm4OptimizerEnabled
    /\ cmdBuf[2].words[1].op = "SET_SH_REG"

\* ---------------------------------------------------------------- C12
\* the call handed a buffer too small for an artifact that exists
TooSmall(len) ==
    /\ query.fn \in {"GetShaderCode", "GetPipelineElf", "GetPerformanceData"}
    /\ ~query.args.sizeNull /\ ~query.args.bufNull
    /\ len > 0 /\ query.args.size < len

ArtifactLength ==
    IF query.fn = "GetShaderCode"
    THEN (IF HasShaderStageInfo(query.args.sel)
          THEN pipeline.m_stageInfo.codeLength ELSE 0)
    ELSE IF query.fn = "GetPipelineElf"
    THEN (IF pipeline.m_pPipelineBinary # 0 THEN pipeline.m_pipelineBinaryLen ELSE 0)
    ELSE IF query.fn = "GetPerformanceData"
    THEN m_perfDataInfo[query.args.sel].sizeInBytes
    ELSE 0

\* C12: GetShaderCode, GetPipelineElf and GetPerformanceData, handed a non-null
\* buffer whose *size is smaller than the stored artifact, return
\* ErrorInvalidMemorySize and copy nothing.
C12_TooSmallBufferRejected ==
    (pc = "Created" /\ TooSmall(ArtifactLength)) =>
        /\ query.result = "ErrorInvalidMemorySize"
        /\ query.buffer = <<>>

\* ---------------------------------------------------------------- C13
\* C13: a GetShaderCode probe (null buffer) on the compute stage returns
\* Success with *size = the code length, and the fetch that follows it with
\* exactly that size returns Success and the bytes of the retained binary's
\* code section at [symbol.value, symbol.value + symbol.size).
C13_ShaderCodeRoundTrip ==
    [][(/\ query.fn = "GetShaderCode" /\ query'.fn = "GetShaderCode"
        /\ pc = "Created" /\ pc' = "Created"
        /\ query.args.sel = "Compute" /\ query'.args.sel = "Compute"
        /\ ~query.args.sizeNull /\ query.args.bufNull
        /\ ~query'.args.sizeNull /\ ~query'.args.bufNull
        /\ query'.args.size = query.size)
       => /\ query.result = "Success"
          /\ query.size = pipeline.m_stageInfo.codeLength
          /\ query'.result = "Success"
          /\ Len(query'.buffer) = query.size
          /\ \A i \in 1..query.size :
                query'.buffer[i] =
                    GetPipelineCode(elf)[meta.csMainEntry.value + i]]_vars

C13_Witness ==
    /\ pc = "Created" /\ query.fn = "GetShaderCode"
    /\ query.args.sel = "Compute" /\ ~query.args.bufNull
    /\ query.args.size = pipeline.m_stageInfo.codeLength
    /\ query.result = "Success"
    /\ Len(query.buffer) = meta.csMainEntry.size
    /\ Len(query.buffer) < Len(GetPipelineCode(elf))

\* ---------------------------------------------------------------- C14
\* C14: an introspection call, whether it succeeds or fails, leaves the
\* retained binary, the GPU allocation record, the signature and the
\* pre-built images as they were; the performance-data records WriteCommands
\* also reads are unchanged too, or at least every WriteCommands call writes
\* the same words after it as before it.
C14_IntrospectionChangesNothing ==
    [][query' # query =>
          /\ UNCHANGED <<elf, pipeline, m_signature, m_commands>>
          /\ \/ m_perfDataInfo' = m_perfDataInfo
             \/ \A in \in BindInputs :
                WriteCommands(m_commands', m_perfDataInfo'[HwStageCs], dev,
                              in.stream, in.csInfo, in.prefetch)
                = WriteCommands(m_commands, m_perfDataInfo[HwStageCs], dev,
                                in.stream, in.csInfo, in.prefetch)]_vars

C14_Witness ==
    /\ pc = "Created" /\ query.fn = "GetPerformanceData"
    /\ query.args.sel = HwStageCs
    /\ query.result = "Success" /\ query.buffer # <<>>
    /\ m_perfDataInfo[HwStageCs].regOffset # UserDataNotMapped

\* ------------------------------------------------------- C15 .. C18
Extracted == pc = "extracted"
FirstUserSgprRegAddr == mmCOMPUTE_USER_DATA_0 + FastUserDataStartReg

\* the registers of the list that carry an ordinal / a given reserved value
OrdinalRegs == {r \in DOMAIN meta.registers : meta.registers[r] < MaxUserDataEntries}
RegsWith(value) == {r \in DOMAIN meta.registers : meta.registers[r] = value}
OrdinalsInRange == \A r \in OrdinalRegs : r >= FirstUserSgprRegAddr

\* C15 as stated: a list without ordinal mappings yields userSgprCount == 0
\* and the spill-table, work-group-count and performance-data registers all
\* at the not-mapped value.
C15_NoOrdinalsAllUnmapped ==
    (Extracted /\ OrdinalRegs = {}) =>
        /\ m_signature.stage.userSgprCount = 0
        /\ m_signature.stage.spillTableRegAddr = UserDataNotMapped
        /\ m_signature.numWorkGroupsRegAddr = UserDataNotMapped
        /\ m_signature.perfDataAddr = UserDataNotMapped

\* C15 amended: a list without ordinal mappings yields userSgprCount == 0,
\* and each optional register field is at the not-mapped value exactly when
\* no register of the list carries that field's reserved value.
C15_NoOrdinalsCountZero ==
    (Extracted /\ OrdinalRegs = {}) =>
        /\ m_signature.stage.userSgprCount = 0
        /\ (m_signature.stage.spillTableRegAddr = UserDataNotMapped
                <=> RegsWith(UserDataMapping.SpillTable) = {})
        /\ (m_signature.numWorkGroupsRegAddr = UserDataNotMapped
                <=> RegsWith(UserDataMapping.Workgroup) = {})
        /\ (m_signature.perfDataAddr = UserDataNotMapped
                <=> RegsWith(UserDataMapping.PerShaderPerfData) = {})

C15_Witness ==
    /\ Extracted /\ OrdinalRegs = {}
    /\ RegsWith(UserDataMapping.SpillTable) # {}
    /\ RegsWith(UserDataMapping.PerShaderPerfData) = {}
    /\ m_signature.stage.spillTableRegAddr # UserDataNotMapped
    /\ m_signature.stage.userSgprCount = 0

\* exactly the ordinals 0, 1 and 2 are mapped, each from its own register
OrdinalsAre012 ==
    /\ Cardinality(OrdinalRegs) = 3
    /\ {meta.registers[r] : r \in OrdinalRegs} = {0, 1, 2}

SlotOf(r) == r - FirstUserSgprRegAddr

\* C16 as stated: with exactly the ordinals 0, 1, 2 mapped to distinct
\* registers, whichever they are, userSgprCount == 3 and the slot that
\* carries ordinal i maps back to i.
C16_ThreeOrdinalsCountThree ==
    (Extracted /\ OrdinalsAre012) =>
        /\ m_signature.stage.userSgprCount = 3
        /\ \A r \in OrdinalRegs :
              /\ SlotOf(r) \in 0..15
              /\ m_signature.stage.mappedEntry[SlotOf(r)] = meta.registers[r]

\* C17: in every signature the extractor produces, a slot that carries an
\* ordinal and a slot that carries none hold different mappedEntry values.
C17_NotMappedDistinctFromOrdinals ==
    (Extracted /\ OrdinalsInRange) =>
        \A r \in OrdinalRegs, u \in 0..15 :
            (FirstUserSgprRegAddr + u) \notin OrdinalRegs
                => m_signature.stage.mappedEntry[SlotOf(r)]
                       # m_signature.stage.mappedEntry[u]

\* the list maps one ordinal from two registers, carries one reserved value
\* on two registers, or carries an ordinal below the first user-SGPR register
Conflicting ==
    \/ \E r1, r2 \in DOMAIN meta.registers :
          /\ r1 # r2
          /\ meta.registers[r1] = meta.registers[r2]
    \/ ~OrdinalsInRange

\* C18: SetupSignatureFromElf rejects a conflicting register list: no
\* extraction completes on one, so no field is written twice or out of range.
C18_ConflictingListRejected ==
    Extracted => ~Conflicting

\* ---------------------------------------------------------------- C19
\* C19 as stated: in HwlInit no packet compilation step (BuildPm4Headers, the
\* filling of the images) writes m_commands before SetupSignatureFromElf has
\* completed.
SignatureDone == pc \in {"Fill", "Stage", "End", "Finish", "Return", "Created",
                         "Failed", "Destroyed"}

C19_SignatureBeforeCompilation ==
    [][m_commands' # m_commands => SignatureDone]_vars

\* the register values and payloads of the images, without the packet headers
RegisterValues(cmds) ==
    <<cmds.set.computePgmLo, cmds.set.computePgmHi, cmds.set.computeUserDataLo,
      cmds.set.computePgmRsrc1, cmds.set.computeNumThreadX,
      cmds.set.computeNumThreadY, cmds.set.computeNumThreadZ,
      cmds.set.computeShaderChksum, cmds.dynamic.computePgmRsrc2,
      cmds.dynamic.computeResourceLimits, cmds.prefetch>>

\* C19 amended: BuildPm4Headers runs before SetupSignatureFromElf and writes
\* packet headers only; SetupSignatureFromElf completes before any register
\* value or payload is filled into the images, and before the first
\* WriteCommands.
C19_SignatureBeforeRegisterValues ==
    [][/\ RegisterValues(m_commands') # RegisterValues(m_commands) => SignatureDone
       /\ m_signature' # m_signature => (pc = "Signature" /\ m_commands' = m_commands)
       /\ cmdBuf' # cmdBuf => SignatureDone]_vars

C19_Witness ==
    /\ pc = "Stage"
    /\ m_signature.stage.userSgprCount > 0
    /\ m_signature.perfDataAddr # UserDataNotMapped
    /\ m_commands.set.hdrComputePgm.op = "SET_SH_REG"
    /\ m_commands.set.computePgmRsrc1 # 0

\* ---------------------------------------------------------------- C20
\* HwlInit, lines 288-290, from the thread-group dimensions of the binary
WavesPerGroup ==
    RoundUpQuotient(NumThreadFull(meta.registers[mmCOMPUTE_NUM_THREAD_X])
                        * NumThreadFull(meta.registers[mmCOMPUTE_NUM_THREAD_Y])
                        * NumThreadFull(meta.registers[mmCOMPUTE_NUM_THREAD_Z]), 64)

Compiled == pc = "Created"

\* C20 as stated: whenever wavesPerGroup == 1 and numCuPerSh is odd, the
\* compiled dynamic image has FORCE_SIMD_DIST set, for every number of shader
\* arrays.
C20_OddCuForcesSimdDist ==
    (Compiled /\ WavesPerGroup = 1 /\ dev.numCuPerSh % 2 = 1) =>
        m_commands.dynamic.computeResourceLimits.FORCE_SIMD_DIST = 1

\* C20 amended: whenever wavesPerGroup == 1 and numShaderArrays * numCuPerSh
\* is not a multiple of 4, the compiled dynamic image has FORCE_SIMD_DIST set.
C20_CuCountNotMultipleOf4ForcesSimdDist ==
    (Compiled /\ WavesPerGroup = 1
        /\ (dev.numShaderArrays * dev.numCuPerSh) % 4 # 0) =>
        m_commands.dynamic.computeResourceLimits.FORCE_SIMD_DIST = 1

C20_Witness ==
    /\ Compiled /\ WavesPerGroup = 1
    /\ dev.numCuPerSh % 2 = 0 /\ dev.numShaderArrays = 1
    /\ (dev.numShaderArrays * dev.numCuPerSh) % 4 # 0
    /\ m_commands.dynamic.computeResourceLimits.FORCE_SIMD_DIST = 1

\* ---------------------------------------------------------------- C21
\* C21 as stated: the compiled dynamic image has SIMD_DEST_CNTL == 1 whenever
\* wavesPerGroup is a multiple of 4, whatever the compute-unit count and the
\* device settings are, and SIMD_DEST_CNTL == 0 otherwise.
C21_SimdDestCntlFollowsWaves ==
    Compiled =>
        m_commands.dynamic.computeResourceLimits.SIMD_DEST_CNTL
            = (IF WavesPerGroup % 4 = 0 THEN 1 ELSE 0)

\* C21 amended: with the csSimdDestCntl setting at its default the compiled
\* dynamic image has SIMD_DEST_CNTL == 1 exactly when wavesPerGroup is a
\* multiple of 4, whatever the compute-unit count; the setting's Force1 and
\* Force0 values make it 1 and 0 whatever wavesPerGroup is.
C21_SimdDestCntlFollowsWavesUnlessForced ==
    Compiled =>
        m_commands.dynamic.computeResourceLimits.SIMD_DEST_CNTL
            = (CASE dev.csSimdDestCntl = "CsSimdDestCntlForce1" -> 1
                 [] dev.csSimdDestCntl = "CsSimdDestCntlForce0" -> 0
                 [] OTHER -> IF WavesPerGroup % 4 = 0 THEN 1 ELSE 0)

C21_Witness ==
    /\ Compiled /\ WavesPerGroup = 4
    /\ dev.csSimdDestCntl = "CsSimdDestCntlDefault"
    /\ dev.numCuPerSh % 2 = 1
    /\ m_commands.dynamic.computeResourceLimits.SIMD_DEST_CNTL = 1

\* ---------------------------------------------------------------- C22
HeadersBuilt == pc \in {"End", "Created"}

\* the images as the chunk would build them on hardware chip, NGG on or off
HeadersOn(chip, ngg) ==
    LET d    == Merge(chip, dev)
        info == [pipeline.loadInfo EXCEPT !.enableNgg = ngg]
    IN  VsPs_BuildPm4Headers(
            VsPs_EarlyInit(ZeroVsPsCommands, meta.registers, NewLoadInfo(ngg), d, d).commands,
            FALSE, info, d)

StaticSpaceNeeded(c) ==
    <<c.sh.ps.spaceNeeded, c.sh.vs.spaceNeeded, c.context.spaceNeeded,
      c.streamOut.spaceNeeded>>
DynamicSpaceNeeded(c) == <<c.dynamic.ps.spaceNeeded, c.dynamic.vs.spaceNeeded>>

ComputeSetSpaceNeededSame ==
    \A chip \in VsPsChipProps :
        BuildPm4Headers(ZeroCommands, uploader, chip).set.spaceNeeded
            = BuildPm4Headers(ZeroCommands, uploader, dev).set.spaceNeeded

\* C22 as stated: every register range that BuildPm4Headers (compute and
\* VS/PS) finds inapplicable on the hardware (supportSpp, gfx10,
\* supportSpiPrefPriority, NGG) is replaced by a no-op filler of the same
\* size, so every image's spaceNeeded is the same on every hardware
\* generation/capability combination.
C22_SpaceNeededSameOnAllHardware ==
    HeadersBuilt =>
        /\ ComputeSetSpaceNeededSame
        /\ \A chip \in VsPsChipProps, ngg \in BOOLEAN :
              /\ StaticSpaceNeeded(HeadersOn(chip, ngg)) = StaticSpaceNeeded(m_commands)
              /\ DynamicSpaceNeeded(HeadersOn(chip, ngg)) = DynamicSpaceNeeded(m_commands)

\* C22 amended: the fillers keep the spaceNeeded of the static images (the
\* compute set image, sh.ps, sh.vs, context, streamOut) the same on every
\* hardware/NGG combination; the dynamic images get no filler: dynamic.ps
\* holds the RSRC4 packet on gfx10 only and dynamic.vs is empty in NGG mode.
C22_StaticSpaceNeededSameOnAllHardware ==
    HeadersBuilt =>
        /\ ComputeSetSpaceNeededSame
        /\ \A chip \in VsPsChipProps, ngg \in BOOLEAN :
              StaticSpaceNeeded(HeadersOn(chip, ngg)) = StaticSpaceNeeded(m_commands)
        /\ LET rsrc3 == BuildSetOneShRegIndex(mmSPI_SHADER_PGM_RSRC3_PS).size
               rsrc4 == IF IsGfx10(dev.gfxLevel)
                        THEN BuildSetOneShRegIndex(mmSPI_SHADER_PGM_RSRC4_PS).size
                        ELSE 0
           IN  /\ m_commands.dynamic.ps.spaceNeeded = rsrc3 + rsrc4
               /\ m_commands.dynamic.vs.spaceNeeded =
                      IF pipeline.loadInfo.enableNgg THEN 0 ELSE rsrc3 + rsrc4

C22_Witness ==
    /\ HeadersBuilt
    /\ dev.supportSpp = 0 /\ ~IsGfx10(dev.gfxLevel) /\ ~dev.supportSpiPrefPriority
    /\ pipeline.loadInfo.enableNgg
    /\ m_commands.sh.ps.hdrSpiShaderPgmChksum.hdr.op = "NOP"
    /\ m_commands.sh.vs.hdrSpiShaderPgm.hdr.op = "NOP"
    /\ m_commands.sh.ps.spaceNeeded = m_commands.sh.vs.spaceNeeded

\* ---------------------------------------------------------------- C23
\* the SH register blocks of the two stages (64 registers each)
PsShRegs == (mmSPI_SHADER_PGM_RSRC4_PS - 1) .. (mmSPI_SHADER_PGM_RSRC4_PS + 62)
VsShRegs == (mmSPI_SHADER_PGM_RSRC4_VS - 1) .. (mmSPI_SHADER_PGM_RSRC4_VS + 62)

\* the packet headers among the DWORDs of a write
PacketHeaders(words) ==
    {i \in 1..Len(words) : words[i].op \notin {"REG_OFFSET", "DATA"}}

\* the DWORDs the pixel stage accounts for on the path of the write
PsDwordCount ==
    (IF cmdBuf.in.UseLoadIndexPath THEN 0 ELSE m_commands.sh.ps.spaceNeeded)
    + m_commands.dynamic.ps.spaceNeeded
    + (IF m_perfDataInfo[HwStagePs].regOffset # UserDataNotMapped
       THEN ShRegSizeDwords + 1 ELSE 0)

\* C23: in NGG mode WriteShCommands writes no vertex-stage packet on either
\* encoding path (no VS static image, no VS dynamic image, no VS
\* performance-data register write); the output is the pixel-stage packets only.
C23_NggWritesNoVertexPackets ==
    (cmdBuf.fn = "WriteShCommands" /\ cmdBuf.in.isNgg) =>
        /\ \A i \in PacketHeaders(cmdBuf.words) :
              /\ cmdBuf.words[i].reg \notin VsShRegs
              /\ cmdBuf.words[i].op = "NOP" \/ cmdBuf.words[i].reg \in PsShRegs
        /\ Len(cmdBuf.words) = PsDwordCount

C23_Witness ==
    /\ cmdBuf.fn = "WriteShCommands" /\ cmdBuf.in.isNgg
    /\ ~cmdBuf.in.UseLoadIndexPath
    /\ m_perfDataInfo[HwStageVs].regOffset # UserDataNotMapped
    /\ m_perfDataInfo[HwStagePs].regOffset # UserDataNotMapped
    /\ \E i \in PacketHeaders(cmdBuf.words) :
          cmdBuf.words[i].reg = mmSPI_SHADER_PGM_RSRC3_PS

\* ---------------------------------------------------------------- C24
StrideRegs == {VgtStrmoutVtxStrideAddr[i] : i \in 1..MaxStreamOutTargets}
StreamOutConfigRegs == {mmVGT_STRMOUT_CONFIG, mmVGT_STRMOUT_BUFFER_CONFIG}

\* the registers the packets of a write set
RegsSet(words) ==
    UNION {{words[i].reg + k : k \in 0..(words[i].v - 1)} :
              i \in {j \in PacketHeaders(words) :
                        words[j].op \in {"SET_CONTEXT_REG", "SET_SH_REG",
                                         "SET_SH_REG_INDEX"}}}

\* the registers of the load-index context register table
RegsStaged == {uploader.ctxRegs[i][1] : i \in 1..Len(uploader.ctxRegs)}

TableStaged == pc \in {"End", "Created"} /\ EnableLoadIndexPath(uploader)
SetPathWrite == cmdBuf.fn = "WriteContextCommands" /\ ~cmdBuf.in.UseLoadIndexPath
StreamOutEnabled == VgtStrmoutConfig(m_commands) # 0

\* C24 as stated: the stream-out stride and config registers are among what
\* the chunk emits (the streamOut image of the set path, the load-index
\* register table) only if stream-out is enabled; with stream-out disabled
\* none of them is emitted.
C24_StreamOutRegsOnlyIfEnabled ==
    ~StreamOutEnabled =>
        /\ TableStaged => RegsStaged \cap (StrideRegs \cup StreamOutConfigRegs) = {}
        /\ SetPathWrite =>
              RegsSet(cmdBuf.words) \cap (StrideRegs \cup StreamOutConfigRegs) = {}

\* C24 amended: the stride registers are emitted (set-path streamOut image,
\* load-index table) exactly when stream-out is enabled; VGT_STRMOUT_CONFIG
\* and VGT_STRMOUT_BUFFER_CONFIG are emitted always, enabled or not.
C24_StrideRegsOnlyIfEnabled ==
    /\ TableStaged =>
          /\ StreamOutConfigRegs \subseteq RegsStaged
          /\ IF StreamOutEnabled THEN StrideRegs \subseteq RegsStaged
             ELSE StrideRegs \cap RegsStaged = {}
    /\ SetPathWrite =>
          /\ StreamOutConfigRegs \subseteq RegsSet(cmdBuf.words)
          /\ IF StreamOutEnabled THEN StrideRegs \subseteq RegsSet(cmdBuf.words)
             ELSE StrideRegs \cap RegsSet(cmdBuf.words) = {}

C24_Witness ==
    /\ TableStaged /\ SetPathWrite /\ ~StreamOutEnabled
    /\ HasEntry(meta.registers, mmVGT_STRMOUT_CONFIG)
    /\ mmVGT_STRMOUT_CONFIG \in RegsStaged
    /\ mmVGT_STRMOUT_CONFIG \in RegsSet(cmdBuf.words)

\* ---------------------------------------------------------------- C27
LateInitDone == pc \in {"End", "Created"}

\* C27: whatever the load-index setting, NGG, supportSpp, the hardware
\* generation, supportSpiPrefPriority, stream-out and the interpolator count,
\* the SH and context register counts EarlyInit adds to the load info are the
\* numbers of AddShReg and AddCtxReg calls LateInit makes (so neither of the
\* two count assertions of PipelineUploader::End fires).
C27_EarlyInitCountsMatchLateInit ==
    LateInitDone =>
        /\ Len(uploader.shRegs) = pipeline.loadInfo.loadedShRegCount
        /\ Len(uploader.ctxRegs) = pipeline.loadInfo.loadedCtxRegCount
        /\ alerts \cap {"End:ctxRegCount", "End:shRegCount"} = {}

C27_Witness ==
    /\ pc = "Created"
    /\ dev.enableLoadIndexForObjectBinds
    /\ ~StreamOutEnabled
    /\ ~meta.enableNgg
    /\ dev.supportSpiPrefPriority
    /\ pipeline.loadInfo.interpolatorCount = MaxPsInputSemantics
    /\ Len(uploader.ctxRegs) = BaseLoadedCntxRegCount + MaxPsInputSemantics
    /\ Len(uploader.shRegs) > BaseLoadedShRegCountPs + BaseLoadedShRegCountVs

\* ---------------------------------------------------------------- C25
\* the sentinels SetupSignatureFromElf accepts on a compute pipeline
ComputeMappings ==
    {UserDataMapping.GlobalTable, UserDataMapping.PerShaderTable,
     UserDataMapping.SpillTable, UserDataMapping.Workgroup,
     UserDataMapping.GdsRange, UserDataMapping.PerShaderPerfData}

\* the user-data registers whose value is neither an entry ordinal nor a
\* sentinel a compute pipeline accepts
InvalidSigRegs ==
    {r \in DOMAIN meta.registers :
        /\ meta.registers[r] \notin 0..(MaxUserDataEntries - 1)
        /\ meta.registers[r] \notin ComputeMappings}

ValidSigRegisters == [r \in (DOMAIN meta.registers) \ InvalidSigRegs |-> meta.registers[r]]

\* C25: a user-data register whose value is neither an ordinal below
\* MaxUserDataEntries nor a recognised sentinel, or is a graphics-only
\* sentinel, raises an assertion / alert and is stored in no signature field:
\* the signature and the performance-data register are what they would be had
\* the register had no entry.
C25_InvalidMappingNeverStored ==
    (pc = "extracted" /\ InvalidSigRegs # {}) =>
        LET st == SetupSignatureFromElf(NullCsSignature, UserDataNotMapped, meta,
                                        ValidSigRegisters)
        IN  /\ m_signature \in SignatureOutcomes(st)
            /\ m_perfDataInfo[HwStageCs].regOffset = st.regOffset
            /\ m_signature.perfDataAddr \notin InvalidSigRegs
            /\ m_signature.numWorkGroupsRegAddr \notin InvalidSigRegs
            /\ \A r \in InvalidSigRegs :
                  IF meta.registers[r] = UserDataMapping.BaseVertex
                  THEN "Signature:graphicsOnly" \in alerts
                  ELSE "Signature:neverCalled" \in alerts

C25_Witness ==
    /\ pc = "extracted"
    /\ \E r, q, s \in DOMAIN meta.registers :
          /\ meta.registers[r] = UserDataMapping.BaseVertex
          /\ meta.registers[q] = MaxUserDataEntries
          /\ meta.registers[s] = 1
          /\ s >= mmCOMPUTE_USER_DATA_0 + FastUserDataStartReg
    /\ m_signature.stage.userSgprCount > 0
    /\ {"Signature:graphicsOnly", "Signature:neverCalled"} \subseteq alerts

\* ---------------------------------------------------------------- C26
BeginSucceeded == pc = "begun" /\ result = "Success"

\* the GPU virtual address of the allocation's first byte
AllocationGpuVirtAddr == memMgr.gpuVirtAddr + uploader.m_baseOffset

\* C26: after a successful Begin, each stage with a nonzero performance
\* buffer size has a recorded GPU address equal to the low 32 bits of the
\* allocation's base GPU address plus the stage's recorded CPU offset.
C26_PerfGpuAddrMatchesCpuOffset ==
    BeginSucceeded =>
        \A s \in HwStages :
            m_perfDataInfo[s].sizeInBytes # 0 =>
                m_perfDataInfo[s].gpuVirtAddr =
                    LowPart(AllocationGpuVirtAddr + m_perfDataInfo[s].cpuOffset)

\* ---------------------------------------------------------------- C28
\* the byte ranges Begin lays out, as offsets from the allocation's first
\* byte (m_pMappedPtr after line 675): <<first byte, byte past the end>>
SectionRanges ==
    [i \in 1..Len(mapping.m_sections) |->
        <<mapping.m_sections[i].offset,
          mapping.m_sections[i].offset + elf[mapping.m_sections[i].id].size>>]

CtxTableRange ==
    IF uploader.m_ctxRegisterCount > 0
    THEN <<<<uploader.m_pCtxRegWritePtrStart - uploader.m_pMappedPtr,
             uploader.m_pCtxRegWritePtrStart - uploader.m_pMappedPtr
                 + RegisterEntryBytes * uploader.m_ctxRegisterCount>>>>
    ELSE <<>>

ShTableRange ==
    IF uploader.m_shRegisterCount > 0
    THEN <<<<uploader.m_pShRegWritePtrStart - uploader.m_pMappedPtr,
             uploader.m_pShRegWritePtrStart - uploader.m_pMappedPtr
                 + RegisterEntryBytes * uploader.m_shRegisterCount>>>>
    ELSE <<>>

RECURSIVE PerfRanges(_)
PerfRanges(s) ==
    IF s >= HwStageCount THEN <<>>
    ELSE (IF m_perfDataInfo[s].sizeInBytes # 0
          THEN <<<<m_perfDataInfo[s].cpuOffset,
                   m_perfDataInfo[s].cpuOffset + m_perfDataInfo[s].sizeInBytes>>>>
          ELSE <<>>) \o PerfRanges(s + 1)

LaidOutRanges == SectionRanges \o CtxTableRange \o ShTableRange \o PerfRanges(0)

RangesInsideAndDisjoint(ranges, size) ==
    /\ \A i \in DOMAIN ranges : 0 <= ranges[i][1] /\ ranges[i][2] <= size
    /\ \A i, j \in DOMAIN ranges :
          i < j => (ranges[i][2] <= ranges[j][1] \/ ranges[j][2] <= ranges[i][1])

C28_DisjointWhenAligned ==
    (BeginSucceeded /\ endCalls = 0 /\ \A i \in DOMAIN elf : elf[i].align >= 1) =>
        RangesInsideAndDisjoint(LaidOutRanges, uploader.m_gpuMemSize)

\* ---------------------------------------------------------------- C29
\* the GPU address of the compute shader's main entry
CsProgramVa == uploader.m_codeGpuVirtAddr + meta.csMainEntry.value

\* C29: when HwlInit returns Success the lookup of the main-entry symbol
\* succeeded and COMPUTE_PGM_LO / COMPUTE_PGM_HI hold its 256-byte-aligned
\* address; a failed lookup makes HwlInit return a failure.
C29_SuccessMeansMainEntryFound ==
    /\ (pc = "Created" /\ result = "Success") =>
          /\ GetPipelineSymbolGpuVirtAddr(uploader, meta.csMainEntry).result = "Success"
          /\ CsProgramVa % 256 = 0
          /\ m_commands.set.computePgmLo = Get256BAddrLo(CsProgramVa)
          /\ m_commands.set.computePgmHi = Get256BAddrHi(CsProgramVa)
    /\ (pc \in {"Created", "Failed"}
          /\ GetPipelineSymbolGpuVirtAddr(uploader, meta.csMainEntry).result # "Success")
       => result # "Success"

\* ---------------------------------------------------------------- C30
\* the COMPUTE_PGM_RSRC2 value a bind wrote: the dynamic image follows the
\* static image, its first register value is its third word
WrittenRsrc2(b) ==
    cmdBuf[b].words[(IF LoadIndexExpected(cmdBuf[b].in) THEN LoadIndexDwords
                     ELSE m_commands.set.spaceNeeded) + 3]

\* bytes of LDS per unit of the LDS_SIZE field
LdsBytesPerUnit == Gfx9LdsDwGranularity * 4

\* C30: for every csInfo.ldsBytesPerTg > 0 WriteCommands patches LDS_SIZE so
\* that LDS_SIZE * 512 is at least ldsBytesPerTg and less than ldsBytesPerTg
\* + 512; for ldsBytesPerTg = 0 the template's LDS_SIZE is written.
C30_LdsSizeCoversRequest ==
    \A b \in Buffers :
        cmdBuf[b].written =>
            LET lds  == cmdBuf[b].in.csInfo.ldsBytesPerTg
                size == WrittenRsrc2(b).LDS_SIZE
            IN  IF lds > 0
                THEN /\ size * LdsBytesPerUnit >= lds
                     /\ size * LdsBytesPerUnit < lds + LdsBytesPerUnit
                ELSE size = m_commands.dynamic.computePgmRsrc2.LDS_SIZE

====
